---- MODULE Spec2Model ----
(***************************************************************************)
(* Model of the bulk ingestion benchmark of greptimedb-ingester-rust:      *)
(*   - LogTableDataProvider (examples/bench/log_table_data_provider.rs),   *)
(*     the Row Source: a cursor current_row over row_count synthetic rows; *)
(*   - BulkApiBenchmarkRunner::run_benchmark                               *)
(*     (examples/bench/benchmark_runner.rs), the Submission Engine;        *)
(*   - the bulk stream writer (write_rows_async, flush_completed_responses,*)
(*     finish_with_responses), whose code is not among the sources and is  *)
(*     modelled from the specification's description of the transport.     *)
(* Beside the run (Spec, SpecLong, and SpecFair for its termination) the   *)
(* module has smaller specifications over the same variables:              *)
(*   - SpecSequences: the lazy sequences rows() and api_rows() of one      *)
(*     provider, pulled in any interleaving;                               *)
(*   - SpecConfig: BenchmarkConfig::from_env and create_bulk_options       *)
(*     (examples/bench/benchmark_runner.rs) applied to an environment;     *)
(*   - SpecRow: Row (src/table.rs), its add_value/add_values calls and its *)
(*     typed accessors, in a debug and in a release build;                 *)
(*   - SpecSchema: TableSchema (src/table.rs), its derived builder and its *)
(*     add_* calls;                                                        *)
(*   - SpecRegular: run_regular_api_benchmark, the path that sends the     *)
(*     wire rows batch by batch through database.insert.                   *)
(***************************************************************************)
EXTENDS Integers, Sequences, FiniteSets, TLC

\* ------------------------------------------------------------------ bounds
\* Largest table_row_count (K) explored.
MaxRows == 12
\* Largest batch_size (B) explored.
MaxBatch == 2
\* Largest parallelism (outstanding-write slots) explored.
MaxParallelism == 2
\* The row count of the long single-row-batch run (two reconciliation polls).
LongRows == 20
\* A representative clock reading for base_time (SystemTime::now(), in ms).
BaseTime == 5000

\* ------------------------------------------------------- program constants
\* if batch_count % 10 == 0 { flush_completed_responses() }
FlushEvery == 10
\* let pool_size = 10000.min(config.table_row_count * 2);
PoolCap == 10000
\* (random_offset as i64 % 2000) - 1000
TsSpread == 2000
TsShift == 1000
\* ((base_idx % 999) + 1) as i64
RtMod == 999

VARIABLES
    \* BenchmarkConfig
    row_count,      \* config.table_row_count -> provider.row_count
    batch_size,     \* config.batch_size
    parallelism,    \* config.parallelism
    \* LogTableDataProvider
    current_row,    \* the provider's cursor
    \* run_benchmark locals
    pc,             \* position of run_benchmark
    rows_buf,       \* the batch buffer being filled / handed over
    break_out,      \* set when row_iter.next() returned None
    rows_written,   \* observability counter
    batch_count,    \* observability counter, also drives the reconciliation poll
    result,         \* the BenchmarkResult (meaningful once pc = "done")
    \* bulk stream writer (transport)
    pending,        \* accepted writes still outstanding (request ids)
    completed,      \* writes completed whose response has not been handed out yet
    failed,         \* accepted writes that failed
    \* history
    calls,          \* every call the engine made, in order: <<op, outcome, n>>
    submitted,      \* the batches handed to write_rows_async, in order
    collected,      \* request ids of the acknowledgements handed to the engine
    ackCount,       \* number of acknowledgements handed to the engine
    ackRows,        \* sum of their affected_rows
    write_error,    \* ordinal of the batch whose write_rows_async failed, 0 if none
    \* the provider's lazy sequences, driven directly
    api_current_row,\* ApiRowIterator.current_row
    rows_out,       \* what the pulls of the structured-row sequence returned, in order
    api_out,        \* what the pulls of the current wire-row sequence returned, in order
    pulls,          \* which sequence each pull was made on, in order
    \* the configuration, built directly
    env,            \* the process environment: variable name -> value or Unset
    config,         \* the BenchmarkConfig from_env built
    bulk_options,   \* the BulkWriteOptions create_bulk_options built
    \* a Row and the calls of its accessors
    values,         \* Row.values
    debug_assertions, \* cfg!(debug_assertions): the build configuration
    call,           \* the accessor called last: name, type, index
    ret,            \* what it returned, or the panic it raised
    taken,          \* the indexes at which a take returned a payload
    \* a TableSchema under construction
    schema,         \* the TableSchema: name, columns
    schema_calls,   \* the add_* calls made on it, in order, with their arguments
    rows_start      \* how much rows_out held when rows() was last called

vars == <<row_count, batch_size, parallelism, current_row, pc, rows_buf, break_out,
          rows_written, batch_count, result, pending, completed, failed, calls,
          submitted, collected, ackCount, ackRows, write_error,
          api_current_row, rows_out, api_out, pulls, env, config, bulk_options,
          values, debug_assertions, call, ret, taken,
          schema, schema_calls, rows_start>>

\* ------------------------------------------------------------- helpers
Min(a, b) == IF a < b THEN a ELSE b

RECURSIVE SumLen(_, _)
\* Sum of the affected_rows of a set of acknowledgements: a write's
\* acknowledgement carries the row count of its batch.
SumLen(ids, batches) ==
    IF ids = {} THEN 0
    ELSE LET i == CHOOSE x \in ids : TRUE
         IN Len(batches[i]) + SumLen(ids \ {i}, batches)

\* ---------------------------------------------------- LogTableDataProvider
NoRow == [none |-> TRUE]

\* LogTableDataProvider::new: the pools hold min(10000, 2 * row_count) values.
pool_size(rc) == Min(PoolCap, rc * 2)

\* The row generate_row builds at cursor cur: the timestamp and the pool
\* positions its 22 values are read from.
MakeRow(cur, pool_len) ==
    LET base_idx == cur % pool_len
        random_offset == (cur * 7 + 13) % pool_len
    IN [timestamp        |-> BaseTime + cur + (random_offset % TsSpread) - TsShift,
        base_idx         |-> base_idx,
        log_entry_idx    |-> cur % pool_len,
        response_time_ms |-> (base_idx % RtMod) + 1]

\* LogTableDataProvider::generate_row against cursor cur: the row (or NoRow for
\* None) and the cursor afterwards.
generate_row(cur, rc) ==
    IF cur >= rc
    THEN [row |-> NoRow, current_row |-> cur]
    ELSE [row |-> MakeRow(cur, pool_size(rc)), current_row |-> cur + 1]

\* ------------------------------------------------------------ BenchmarkResult
\* BenchmarkResult::new
NewResult(total) == [total_rows |-> total, success |-> FALSE, error_message |-> "None"]
\* BenchmarkResult::success
ResultSuccess(r) == [r EXCEPT !.success = TRUE]
\* BenchmarkResult::error
ResultError(r, msg) == [r EXCEPT !.error_message = msg, !.success = FALSE]

\* ------------------------------------------------------------------- Init
\* The state run_benchmark starts from: a fresh provider (LogTableDataProvider::new,
\* current_row = 0), the configuration, nothing written.
InitWith(k, b, p) ==
    /\ row_count = k
    /\ batch_size = b
    /\ parallelism = p
    /\ current_row = 0
    /\ pc = "init"
    /\ rows_buf = <<>>
    /\ break_out = FALSE
    /\ rows_written = 0
    /\ batch_count = 0
    /\ result = NewResult(k)
    /\ pending = {}
    /\ completed = {}
    /\ failed = {}
    /\ calls = <<>>
    /\ submitted = <<>>
    /\ collected = {}
    /\ ackCount = 0
    /\ ackRows = 0
    /\ write_error = 0
    /\ api_current_row = 0
    /\ rows_start = 0
    /\ rows_out = <<>>
    /\ api_out = <<>>
    /\ pulls = <<>>
    /\ env = <<>>
    /\ config = <<>>
    /\ bulk_options = <<>>
    /\ values = <<>>
    /\ debug_assertions = FALSE
    /\ call = <<>>
    /\ ret = <<>>
    /\ taken = {}
    /\ schema = <<>>
    /\ schema_calls = <<>>

Init ==
    \E k \in 0..MaxRows, b \in 0..MaxBatch, p \in 1..MaxParallelism : InitWith(k, b, p)

\* The long run: LongRows rows in batches of one row over a writer with a single
\* outstanding-write slot, so that the batch count passes 10 and 20.
InitLong == InitWith(LongRows, 1, 1)

Call(op, outcome, n) == <<op, outcome, n>>

\* The sequences driven directly are not touched by a run of the engine.
sequence_frame == UNCHANGED <<api_current_row, rows_out, api_out, pulls, rows_start>>
\* Nor is the configuration record built from the environment: the run has
\* its configuration in row_count, batch_size and parallelism.
config_frame == UNCHANGED <<env, config, bulk_options>>
\* The rows of a run are built by the provider and handed to the writer; no
\* accessor is called on them.
row_frame == UNCHANGED <<values, debug_assertions, call, ret, taken>>
\* The schema of a run is the provider's; no add_* call is made during it.
schema_frame == UNCHANGED <<schema, schema_calls>>
engine_frame == UNCHANGED <<row_count, batch_size, parallelism>> /\ sequence_frame
                                                                /\ config_frame
                                                                /\ row_frame
                                                                /\ schema_frame
transport_frame == UNCHANGED <<pending, completed, failed, collected, ackCount, ackRows>>
loop_frame == UNCHANGED <<current_row, rows_buf, break_out, rows_written, batch_count,
                          submitted, write_error>>

\* ---------------------------------------------------------- run_benchmark
\* provider.init() returned Ok.
InitOk ==
    /\ pc = "init"
    /\ calls' = Append(calls, Call("init", "Ok", 0))
    /\ pc' = "connect"
    /\ UNCHANGED result
    /\ engine_frame /\ transport_frame /\ loop_frame

\* Fault variant of InitErr: the error is recorded but the run is not ended
\* (the early return is missing).
InitErrNoReturn ==
    /\ pc = "init"
    /\ calls' = Append(calls, Call("init", "Err", 0))
    /\ result' = ResultError(result, "Failed to initialize provider")
    /\ pc' = "connect"
    /\ engine_frame /\ transport_frame /\ loop_frame

\* provider.init() returned Err: return result.error(..).
InitErr ==
    /\ pc = "init"
    /\ calls' = Append(calls, Call("init", "Err", 0))
    /\ result' = ResultError(result, "Failed to initialize provider")
    /\ pc' = "done"
    /\ engine_frame /\ transport_frame /\ loop_frame

\* BulkApiBenchmarkRunner::create_client: Client::with_urls, always Ok.
create_client == "Ok"

\* let client = match self.create_client().await { Ok.. , Err(e) => return .. }
Connect ==
    /\ pc = "connect"
    /\ calls' = Append(calls, Call("create_client", create_client, 0))
    /\ IF create_client = "Ok"
       THEN /\ pc' = "create_writer"
            /\ UNCHANGED result
       ELSE /\ pc' = "done"
            /\ result' = ResultError(result, "Failed to create client")
    /\ engine_frame /\ transport_frame /\ loop_frame

\* create_bulk_stream_writer(..).await returned Ok.
CreateWriterOk ==
    /\ pc = "create_writer"
    /\ calls' = Append(calls, Call("create_bulk_stream_writer", "Ok", 0))
    /\ pc' = "fill"
    /\ UNCHANGED result
    /\ engine_frame /\ transport_frame /\ loop_frame

\* create_bulk_stream_writer(..).await returned Err.
CreateWriterErr ==
    /\ pc = "create_writer"
    /\ calls' = Append(calls, Call("create_bulk_stream_writer", "Err", 0))
    /\ result' = ResultError(result, "Failed to create bulk writer")
    /\ pc' = "done"
    /\ engine_frame /\ transport_frame /\ loop_frame

\* BulkStreamWriter::alloc_rows_buffer(capacity, row_buffer_size): a buffer or
\* an error.
alloc_rows_buffer == {"Ok", "Err"}

\* RowsBuffer::add_row over the n rows a buffer is asked to take: the number of
\* calls that return Ok before one returns Err (n: none fails).
add_row(n) == 0..n

RECURSIVE FillLoop(_, _, _, _, _, _)
\* for _ in 0..batch_size { if let Some(row) = row_iter.next()
\*                              { rows_buf.add_row(row).unwrap() }
\*                          else { break_out = true; break } }
\* i iterations are left; log collects one "next" call per pull.  add_row
\* returns Ok ok_left times and Err after that: the unwrap of an Err panics,
\* which ends the run where it stands, without a result.
FillLoop(i, cur, buf, log, rc, ok_left) ==
    IF i = 0
    THEN [buf |-> buf, cur |-> cur, break_out |-> FALSE, log |-> log, panicked |-> FALSE]
    ELSE LET r == generate_row(cur, rc)
         IN IF r.row = NoRow
            THEN [buf |-> buf, cur |-> r.current_row, break_out |-> TRUE,
                  log |-> Append(log, Call("next", "None", 0)), panicked |-> FALSE]
            ELSE IF ok_left = 0
            THEN [buf |-> buf, cur |-> r.current_row, break_out |-> FALSE,
                  log |-> Append(Append(log, Call("next", "Some", 0)),
                                 Call("add_row", "Err", 0)),
                  panicked |-> TRUE]
            ELSE FillLoop(i - 1, r.current_row, Append(buf, r.row),
                          Append(Append(log, Call("next", "Some", 0)),
                                 Call("add_row", "Ok", 0)),
                          rc, ok_left - 1)

\* Fault variant of Fill: the buffer is allocated once, outside the loop, so
\* every batch still holds the rows of the batches before it.
FillReusedBuffer ==
    /\ pc = "fill"
    /\ \E alloc \in alloc_rows_buffer, ok_left \in add_row(batch_size) :
          IF alloc = "Err"
          THEN /\ calls' = Append(calls, Call("alloc_rows_buffer", "Err", 0))
               /\ pc' = "panicked"
               /\ UNCHANGED <<rows_buf, current_row, break_out, rows_written, batch_count>>
          ELSE LET f == FillLoop(batch_size, current_row, rows_buf,
                                 Append(calls, Call("alloc_rows_buffer", "Ok", 0)),
                                 row_count, ok_left)
                   len == Len(f.buf)
               IN /\ rows_buf' = f.buf
                  /\ current_row' = f.cur
                  /\ calls' = f.log
                  /\ break_out' = f.break_out
                  /\ IF f.panicked
                     THEN /\ pc' = "panicked"
                          /\ UNCHANGED <<rows_written, batch_count>>
                     ELSE IF len = 0
                     THEN /\ pc' = "drain"
                          /\ UNCHANGED <<rows_written, batch_count>>
                     ELSE /\ pc' = "submit"
                          /\ rows_written' = rows_written + len
                          /\ batch_count' = batch_count + 1
    /\ UNCHANGED <<result, submitted, write_error>>
    /\ engine_frame /\ transport_frame

\* Fault variant of Fill: the empty-batch exit (if len == 0 { break }) is
\* missing; an empty batch is submitted and the loop ends on break_out alone.
FillNoEmptyExit ==
    /\ pc = "fill"
    /\ \E alloc \in alloc_rows_buffer, ok_left \in add_row(batch_size) :
          IF alloc = "Err"
          THEN /\ calls' = Append(calls, Call("alloc_rows_buffer", "Err", 0))
               /\ pc' = "panicked"
               /\ UNCHANGED <<rows_buf, current_row, break_out, rows_written, batch_count>>
          ELSE LET f == FillLoop(batch_size, current_row, <<>>,
                                 Append(calls, Call("alloc_rows_buffer", "Ok", 0)),
                                 row_count, ok_left)
                   len == Len(f.buf)
               IN /\ rows_buf' = f.buf
                  /\ current_row' = f.cur
                  /\ calls' = f.log
                  /\ break_out' = (f.break_out \/ len = 0)
                  /\ IF f.panicked
                     THEN /\ pc' = "panicked"
                          /\ UNCHANGED <<rows_written, batch_count>>
                     ELSE /\ pc' = "submit"
                          /\ rows_written' = rows_written + len
                          /\ batch_count' = batch_count + 1
    /\ UNCHANGED <<result, submitted, write_error>>
    /\ engine_frame /\ transport_frame

\* One pass of the loop body up to the submission: a fresh buffer
\* (alloc_rows_buffer(..).unwrap(): an Err panics), the fill (add_row(..).unwrap()
\* likewise), the empty-batch exit, the counters.
Fill ==
    /\ pc = "fill"
    /\ \E alloc \in alloc_rows_buffer, ok_left \in add_row(batch_size) :
          IF alloc = "Err"
          THEN /\ calls' = Append(calls, Call("alloc_rows_buffer", "Err", 0))
               /\ pc' = "panicked"
               /\ UNCHANGED <<rows_buf, current_row, break_out, rows_written, batch_count>>
          ELSE LET f == FillLoop(batch_size, current_row, <<>>,
                                 Append(calls, Call("alloc_rows_buffer", "Ok", 0)),
                                 row_count, ok_left)
                   len == Len(f.buf)
               IN /\ rows_buf' = f.buf
                  /\ current_row' = f.cur
                  /\ calls' = f.log
                  /\ break_out' = f.break_out
                  /\ IF f.panicked
                     THEN /\ pc' = "panicked"
                          /\ UNCHANGED <<rows_written, batch_count>>
                     ELSE IF len = 0
                     THEN /\ pc' = "drain"
                          /\ UNCHANGED <<rows_written, batch_count>>
                     ELSE /\ pc' = "submit"
                          /\ rows_written' = rows_written + len
                          /\ batch_count' = batch_count + 1
    /\ UNCHANGED <<result, submitted, write_error>>
    /\ engine_frame /\ transport_frame

\* ------------------------------------------------ bulk stream writer (transport)
\* The request id the writer gives the next accepted write: writes are numbered
\* in submission order.
next_request_id == Len(submitted) + 1

\* write_rows_async may hand the batch over once an outstanding-write slot is
\* free (the parallelism bound on concurrently outstanding writes).
write_rows_async_ready == Cardinality(pending) < parallelism

\* flush_completed_responses: the acknowledgements of the writes that have
\* already completed, without blocking.
flush_completed_responses == completed

\* finish_with_responses returns once no accepted write is outstanding any more
\* (each has completed or failed).
finish_ready == pending = {}

\* finish_with_responses fails when an accepted write failed.
finish_result == IF failed = {} THEN "Ok" ELSE "Err"

\* An outstanding write completes: its acknowledgement becomes available.
Complete(b) ==
    /\ b \in pending
    /\ pending' = pending \ {b}
    /\ completed' = completed \cup {b}
    /\ UNCHANGED <<failed, collected, ackCount, ackRows>>
    /\ UNCHANGED <<pc, result, calls>>
    /\ engine_frame /\ loop_frame

\* An outstanding write fails: no acknowledgement will come for it. Only
\* finish_with_responses reports a failed write (flush_completed_responses hands
\* out acknowledgements only), so the engine cannot tell when the write failed:
\* the failure is taken while the drain waits for the write.
FailWrite(b) ==
    /\ b \in pending
    /\ pc = "draining"
    /\ pending' = pending \ {b}
    /\ failed' = failed \cup {b}
    /\ UNCHANGED <<completed, collected, ackCount, ackRows>>
    /\ UNCHANGED <<pc, result, calls>>
    /\ engine_frame /\ loop_frame

\* The engine receives a list of acknowledgements.
Collect(acks) ==
    /\ collected' = collected \cup acks
    /\ ackCount' = ackCount + Cardinality(acks)
    /\ ackRows' = ackRows + SumLen(acks, submitted)
    /\ completed' = completed \ acks

\* ------------------------------------------------- run_benchmark, continued
\* let res = bulk_writer.write_rows_async(rows_buf).await: Ok.
SubmitOk ==
    /\ pc = "submit"
    /\ write_rows_async_ready
    /\ submitted' = Append(submitted, rows_buf)
    /\ pending' = pending \cup {next_request_id}
    /\ calls' = Append(calls, Call("write_rows_async", "Ok", batch_count))
    /\ pc' = "reconcile"
    /\ UNCHANGED <<current_row, rows_buf, break_out, rows_written, batch_count,
                   write_error, result>>
    /\ UNCHANGED <<completed, failed, collected, ackCount, ackRows>>
    /\ engine_frame

\* Fault variant of SubmitErr: the failure is printed but the break is missing,
\* so the loop goes on as after a successful write.
SubmitErrNoBreak ==
    /\ pc = "submit"
    /\ submitted' = Append(submitted, rows_buf)
    /\ calls' = Append(calls, Call("write_rows_async", "Err", batch_count))
    /\ write_error' = batch_count
    /\ pc' = "reconcile"
    /\ UNCHANGED <<current_row, rows_buf, break_out, rows_written, batch_count, result>>
    /\ engine_frame /\ transport_frame

\* write_rows_async returned Err: println!("Failed to write rows"); break;
SubmitErr ==
    /\ pc = "submit"
    /\ submitted' = Append(submitted, rows_buf)
    /\ calls' = Append(calls, Call("write_rows_async", "Err", batch_count))
    /\ write_error' = batch_count
    /\ pc' = "drain"
    /\ UNCHANGED <<current_row, rows_buf, break_out, rows_written, batch_count, result>>
    /\ engine_frame /\ transport_frame

\* Fault variant of Reconcile: a poll that does not return every outstanding
\* acknowledgement is taken as a reason to stop submitting.
ReconcileStopsOnMissing ==
    /\ pc = "reconcile"
    /\ IF batch_count % FlushEvery = 0
       THEN /\ Collect(flush_completed_responses)
            /\ calls' = Append(calls, Call("flush_completed_responses", "Ok", batch_count))
            /\ pc' = IF break_out \/ pending # {} THEN "drain" ELSE "fill"
       ELSE /\ UNCHANGED <<completed, collected, ackCount, ackRows>>
            /\ UNCHANGED calls
            /\ pc' = IF break_out THEN "drain" ELSE "fill"
    /\ UNCHANGED <<pending, failed, result>>
    /\ engine_frame /\ loop_frame

\* Fault variant of Reconcile: the poll is taken after the batches whose
\* ordinal is one more than a multiple of 10 (an off-by-one in the test).
ReconcileOffByOne ==
    /\ pc = "reconcile"
    /\ IF batch_count % FlushEvery = 1
       THEN /\ Collect(flush_completed_responses)
            /\ calls' = Append(calls, Call("flush_completed_responses", "Ok", batch_count))
       ELSE /\ UNCHANGED <<completed, collected, ackCount, ackRows>>
            /\ UNCHANGED calls
    /\ pc' = IF break_out THEN "drain" ELSE "fill"
    /\ UNCHANGED <<pending, failed, result>>
    /\ engine_frame /\ loop_frame

\* if batch_count % 10 == 0 { flush_completed_responses() }
\* if break_out { break }
Reconcile ==
    /\ pc = "reconcile"
    /\ IF batch_count % FlushEvery = 0
       THEN /\ Collect(flush_completed_responses)
            /\ calls' = Append(calls, Call("flush_completed_responses", "Ok", batch_count))
       ELSE /\ UNCHANGED <<completed, collected, ackCount, ackRows>>
            /\ UNCHANGED calls
    /\ pc' = IF break_out THEN "drain" ELSE "fill"
    /\ UNCHANGED <<pending, failed, result>>
    /\ engine_frame /\ loop_frame

\* bulk_writer.finish_with_responses() is called: the drain begins.
DrainBegin ==
    /\ pc = "drain"
    /\ calls' = Append(calls, Call("finish_with_responses", "Called", batch_count))
    /\ pc' = "draining"
    /\ UNCHANGED result
    /\ engine_frame /\ transport_frame /\ loop_frame

\* Fault variant of DrainOk: the engine takes what has completed so far and goes
\* on without waiting for the outstanding writes (a non-blocking poll in the
\* place of the awaited finish).
DrainDoesNotWait ==
    /\ pc = "draining"
    /\ finish_result = "Ok"
    /\ Collect(completed)
    /\ calls' = Append(calls, Call("finish_with_responses", "Ok", batch_count))
    /\ pc' = "close"
    /\ UNCHANGED <<pending, failed, result>>
    /\ engine_frame /\ loop_frame

\* finish_with_responses().await returned Ok with the remaining acknowledgements.
DrainOk ==
    /\ pc = "draining"
    /\ finish_ready
    /\ finish_result = "Ok"
    /\ Collect(completed)
    /\ calls' = Append(calls, Call("finish_with_responses", "Ok", batch_count))
    /\ pc' = "close"
    /\ UNCHANGED <<pending, failed, result>>
    /\ engine_frame /\ loop_frame

\* finish_with_responses().await returned Err: return result.error(..).
DrainErr ==
    /\ pc = "draining"
    /\ finish_ready
    /\ finish_result = "Err"
    /\ calls' = Append(calls, Call("finish_with_responses", "Err", batch_count))
    /\ result' = ResultError(result, "Failed to finish bulk writer")
    /\ pc' = "done"
    /\ engine_frame /\ transport_frame /\ loop_frame

\* provider.close() returned Ok: result.success(duration).
CloseOk ==
    /\ pc = "close"
    /\ calls' = Append(calls, Call("close", "Ok", 0))
    /\ result' = ResultSuccess(result)
    /\ pc' = "done"
    /\ engine_frame /\ transport_frame /\ loop_frame

\* provider.close() returned Err: return result.error(..).
CloseErr ==
    /\ pc = "close"
    /\ calls' = Append(calls, Call("close", "Err", 0))
    /\ result' = ResultError(result, "Failed to close provider")
    /\ pc' = "done"
    /\ engine_frame /\ transport_frame /\ loop_frame

Next ==
    \/ InitOk
    \/ InitErr
    \/ Connect
    \/ CreateWriterOk
    \/ CreateWriterErr
    \/ Fill
    \/ SubmitOk
    \/ SubmitErr
    \/ Reconcile
    \/ DrainBegin
    \/ DrainOk
    \/ DrainErr
    \/ CloseOk
    \/ CloseErr
    \/ \E b \in pending : Complete(b)
    \/ \E b \in pending : FailWrite(b)

Spec == Init /\ [][Next]_vars

\* The runs of Spec in which no step that can be taken is put off forever:
\* run_benchmark is one task whose statements run one after the other, and
\* every call it awaits returns (an outstanding write completes or fails, the
\* drain returns once nothing is outstanding).
SpecFair == Init /\ [][Next]_vars /\ WF_vars(Next)

\* The runs of Spec together with the long run.
SpecLong == (Init \/ InitLong) /\ [][Next]_vars

\* =================================================================== claims
\* ----------------------------------------------------- vocabulary of the claims
Ceil(k, b) == (k + b - 1) \div b

RECURSIVE Flatten(_)
\* The batches of a sequence, concatenated.
Flatten(bs) == IF bs = <<>> THEN <<>> ELSE Head(bs) \o Flatten(Tail(bs))

\* The K rows of the source in production order.
SourceRows == [i \in 1..row_count |-> MakeRow(i - 1, pool_size(row_count))]

\* Positions of the log holding a call of op / a call of op with an outcome.
CallsOf(op) == {i \in 1..Len(calls) : calls[i][1] = op}
CallsWith(op, outcome) == {i \in CallsOf(op) : calls[i][2] = outcome}

\* The ids of the writes write_rows_async accepted.
Accepted == {calls[i][3] : i \in CallsWith("write_rows_async", "Ok")}

\* The loop of run_benchmark has been left.
LoopEnded ==
    \/ pc \in {"drain", "draining", "close"}
    \/ pc = "done" /\ CallsOf("finish_with_responses") # {}

\* finish_with_responses has been called / has returned Ok.
DrainBegun == CallsWith("finish_with_responses", "Called") # {}
DrainReturnedOk == CallsWith("finish_with_responses", "Ok") # {}

\* The engine has seen the source's end: a pull returned None, or the fill
\* produced an empty batch (which the engine takes as the signal of exhaustion).
SourceExhausted == break_out \/ rows_buf = <<>>

\* ------------------------------------------------------------------------ C1
\* C1: in a bulk run whose loop ended without a failed write, with batch size
\* B > 0, the batches handed to write_rows_async, concatenated in submission
\* order, are exactly the source's K rows in production order; there are
\* ceil(K/B) of them, each of B rows except the last, which has K mod B rows
\* when that is not zero. At every earlier moment the rows submitted so far are
\* a prefix of the source's rows (no row twice, none skipped).
C1_BatchesAreTheSource ==
    (write_error = 0 /\ batch_size > 0) =>
        LET flat == Flatten(submitted)
            n == Len(submitted)
        IN /\ Len(flat) <= row_count
           /\ flat = SubSeq(SourceRows, 1, Len(flat))
           /\ LoopEnded =>
                /\ flat = SourceRows
                /\ n = Ceil(row_count, batch_size)
                /\ \A i \in 1..n :
                     Len(submitted[i]) =
                        IF i < n \/ row_count % batch_size = 0
                        THEN batch_size
                        ELSE row_count % batch_size

\* The 250/100 scenario at scale: K = 5, B = 2 ends with batches of 2, 2, 1.
C1_Witness ==
    /\ pc = "done" /\ result.success /\ write_error = 0
    /\ row_count = 5 /\ batch_size = 2
    /\ Len(submitted) = 3
    /\ Len(submitted[1]) = 2 /\ Len(submitted[2]) = 2 /\ Len(submitted[3]) = 1

\* ------------------------------------------------------------------------ C2
\* C2: in a run without a failed write, once finish_with_responses has returned
\* Ok, the acknowledgements handed to the engine by the polls and the drain are
\* exactly one per submitted batch (none lost, none counted twice, none left
\* behind in the writer) and their affected rows sum to the rows submitted,
\* which are the K rows of the source when B > 0.
C2_EveryBatchAcknowledgedOnce ==
    /\ ackCount = Cardinality(collected)
    /\ (DrainReturnedOk /\ write_error = 0) =>
          /\ collected = 1..Len(submitted)
          /\ ackCount = Len(submitted)
          /\ ackRows = Len(Flatten(submitted))
          /\ batch_size > 0 => ackRows = row_count
          /\ pending = {} /\ completed = {}

\* Twelve batches, one poll after the tenth, all twelve acknowledged after the
\* drain.
C2_Witness ==
    /\ pc = "close" /\ write_error = 0
    /\ Len(submitted) = 12
    /\ CallsOf("flush_completed_responses") # {}
    /\ ackCount = 12 /\ ackRows = row_count

\* ------------------------------------------------------------------------ C3
\* C3 (as claimed): a run in which a write_rows_async failed returns a result
\* with success = false that carries the failed submission's error.
C3_FailedWriteIsReported ==
    (pc = "done" /\ write_error # 0) =>
        /\ result.success = FALSE
        /\ result.error_message = "Failed to write rows"

\* ------------------------------------------------------------------------ C4
\* C4: once a write_rows_async has failed, no step pulls a row from the source,
\* fills a batch or hands a batch (the failed one included) to write_rows_async.
C4_NothingAfterFailedWrite ==
    [][write_error # 0 =>
          /\ current_row' = current_row
          /\ rows_buf' = rows_buf
          /\ submitted' = submitted
          /\ CallsOf("next")' = CallsOf("next")
          /\ CallsOf("write_rows_async")' = CallsOf("write_rows_async")
          /\ pc' \notin {"fill", "submit", "reconcile"}]_vars

\* The second of three batches failed; the run is over and the third row was
\* never pulled.
C4_Witness ==
    /\ pc = "done" /\ write_error = 2
    /\ row_count = 3 /\ batch_size = 1
    /\ current_row = 2 /\ Len(submitted) = 2

\* ------------------------------------------------------------------------ C5
\* The calls of a run that submits nothing and fails nowhere.
EmptyRunOps ==
    <<"init", "create_client", "create_bulk_stream_writer", "alloc_rows_buffer">>
    \o (IF batch_size > 0 THEN <<"next">> ELSE <<>>)
    \o <<"finish_with_responses", "finish_with_responses", "close">>

\* C5: with batch_size = 0 or row_count = 0 the run submits nothing and polls
\* never; after the writer is set up its only calls are the one empty fill
\* (one buffer allocated, then a single pull returning None, or no pull at all
\* when batch_size = 0), the drain and the close; the drain does not fail, no acknowledgement is
\* collected, and the run that reaches the close successfully returns success.
C5_EmptyRun ==
    (batch_size = 0 \/ row_count = 0) =>
        /\ submitted = <<>>
        /\ CallsOf("flush_completed_responses") = {}
        /\ CallsOf("write_rows_async") = {}
        /\ CallsWith("next", "Some") = {}
        /\ CallsWith("finish_with_responses", "Err") = {}
        /\ Len(calls) <= Len(EmptyRunOps)
        /\ \A i \in 1..Len(calls) : calls[i][1] = EmptyRunOps[i]
        /\ ackCount = 0 /\ collected = {} /\ pending = {}
        /\ (pc = "done" /\ CallsWith("close", "Ok") # {}) =>
              /\ result.success
              /\ Len(calls) = Len(EmptyRunOps)

\* batch_size = 0 over a source that has rows: finished successfully, no row
\* was pulled.
C5_Witness ==
    /\ pc = "done" /\ result.success
    /\ batch_size = 0 /\ row_count > 0
    /\ current_row = 0 /\ submitted = <<>> /\ ackCount = 0

\* ------------------------------------------------------------------------ C6
\* C6 (as claimed): the drain begins only once the source is exhausted and the
\* last filled batch has been submitted; no batch is handed to write_rows_async
\* after the drain began; and the run does not return while a submitted write
\* is still outstanding.
C6_DrainOnlyAfterExhaustion ==
    /\ DrainBegun => (SourceExhausted /\ write_error = 0)
    /\ \A i \in CallsOf("finish_with_responses") :
          \A j \in CallsOf("write_rows_async") : j < i
    /\ pc = "done" => pending = {}

\* ------------------------------------------------------------------------ C7
\* C7 (as claimed): whenever the run returns success, every batch handed to
\* write_rows_async has been acknowledged, no write is pending, and close() was
\* called exactly once, as the last call, after the drain returned.
C7_SuccessMeansAllAcknowledged ==
    (pc = "done" /\ result.success) =>
        /\ collected = 1..Len(submitted)
        /\ pending = {} /\ completed = {}
        /\ Cardinality(CallsOf("close")) = 1
        /\ calls[Len(calls)] = Call("close", "Ok", 0)
        /\ DrainReturnedOk

\* ------------------------------------------------------------------------ C8
\* The place of each call in the sequence init, connect, create writer,
\* pull/submit, drain, close.
StepOf(op) ==
    CASE op = "init" -> 1
      [] op = "create_client" -> 2
      [] op = "create_bulk_stream_writer" -> 3
      [] op \in {"alloc_rows_buffer", "next", "add_row", "write_rows_async",
                  "flush_completed_responses"} -> 4
      [] op = "finish_with_responses" -> 5
      [] op = "close" -> 6

\* The message run_benchmark reports for a failed step.
StepError(op) ==
    CASE op = "init" -> "Failed to initialize provider"
      [] op = "create_client" -> "Failed to create client"
      [] op = "create_bulk_stream_writer" -> "Failed to create bulk writer"
      [] op = "finish_with_responses" -> "Failed to finish bulk writer"
      [] op = "close" -> "Failed to close provider"

\* The steps whose failure run_benchmark turns into an error result.
FailingSteps ==
    {"init", "create_client", "create_bulk_stream_writer",
     "finish_with_responses", "close"}

\* C8: the calls of a run follow the sequence init, connect, create writer,
\* pull/submit, drain, close; a failed init, client creation, writer creation,
\* drain or close is the last call of the run, which has then returned a result
\* with success = false and that step's error.
C8_FailedStepEndsRun ==
    /\ \A i \in 1..(Len(calls) - 1) :
          StepOf(calls[i][1]) <= StepOf(calls[i + 1][1])
    /\ \A i \in 1..Len(calls) :
          (calls[i][2] = "Err" /\ calls[i][1] \in FailingSteps) =>
              /\ i = Len(calls)
              /\ pc = "done"
              /\ result = ResultError(NewResult(row_count), StepError(calls[i][1]))
    /\ CallsWith("init", "Err") # {} =>
          (Len(calls) = 1 /\ current_row = 0 /\ submitted = <<>>)

\* The drain failed after two batches were submitted: the run returned that
\* error and close() was not called.
C8_Witness ==
    /\ pc = "done"
    /\ result.error_message = "Failed to finish bulk writer"
    /\ Len(submitted) = 2 /\ failed # {}
    /\ CallsOf("close") = {}

\* ------------------------------------------------------------------------ C9
\* The batches a run over K rows with batch size B submits when its writes are
\* accepted up to (and not including) the one with ordinal stop.
ChunksUpTo(stop) ==
    [i \in 1..stop |->
        SubSeq(SourceRows, (i - 1) * batch_size + 1, Min(i * batch_size, row_count))]

\* C9: what the run submits, collects and returns is fixed by K, B and the
\* outcomes of the calls it made (which write, if any, was refused; whether the
\* close failed), whatever the order and the moments in which the outstanding
\* writes completed: the submissions are the source's chunks up to the refused
\* write, in order; when no outstanding write failed, the acknowledgements
\* collected by the end of the drain are those of exactly the accepted writes
\* and the run returns success exactly when close() returned Ok.
C9_OutcomeIgnoresCompletionOrder ==
    /\ (batch_size > 0 /\ Len(submitted) > 0) =>
          submitted = ChunksUpTo(Len(submitted))
    /\ (batch_size > 0 /\ LoopEnded) =>
          Len(submitted) = IF write_error # 0 THEN write_error
                           ELSE Ceil(row_count, batch_size)
    /\ (pc \in {"close", "done"} /\ DrainReturnedOk) =>
          /\ collected = Accepted
          /\ ackRows = SumLen(Accepted, submitted)
    /\ (pc = "done" /\ DrainReturnedOk) =>
          result = IF CallsWith("close", "Ok") # {}
                   THEN ResultSuccess(NewResult(row_count))
                   ELSE ResultError(NewResult(row_count), StepError("close"))

\* Batch 10 completed, and was collected by the poll, while batch 9 was still
\* outstanding; the engine has gone on to the next batch.
C9_Witness ==
    /\ pc = "submit" /\ batch_count = 11
    /\ 10 \in collected /\ 9 \in pending

\* ----------------------------------------------------------------------- C10
\* C10: flush_completed_responses is called right after each accepted write
\* whose ordinal is a multiple of 10, and nowhere else; the poll hands out only
\* writes that had completed and leaves the outstanding ones outstanding; and
\* the step after a write is never held up: whatever is outstanding, the engine
\* can take it, and it leads to the next fill (or to the drain when the source
\* signalled its end), which can be taken at once as well.
C10_PollEveryTenth ==
    /\ [](/\ \A i \in CallsOf("flush_completed_responses") :
                /\ i > 1
                /\ calls[i - 1][1] = "write_rows_async"
                /\ calls[i - 1][2] = "Ok"
                /\ calls[i - 1][3] > 0
                /\ calls[i - 1][3] % FlushEvery = 0
          /\ \A i \in CallsWith("write_rows_async", "Ok") :
                calls[i][3] % FlushEvery = 0 =>
                    IF i = Len(calls)
                    THEN pc = "reconcile"
                    ELSE calls[i + 1][1] = "flush_completed_responses"
          /\ pc = "reconcile" => ENABLED Reconcile
          /\ pc = "fill" => ENABLED Fill)
    /\ [][pc = "reconcile" /\ pc' # "reconcile" =>
              /\ collected' \ collected \subseteq completed
              /\ pending' = pending
              /\ pc' = IF break_out THEN "drain" ELSE "fill"]_vars

\* After the second poll (batch 20) the engine is filling the next batch while
\* writes are still outstanding.
C10_Witness ==
    /\ pc = "fill" /\ batch_count = 20
    /\ Cardinality(CallsOf("flush_completed_responses")) = 2
    /\ pending # {}

\* ----------------------------------------------------------------------- C11
\* The counters run_benchmark keeps for its report: total_rows_written and
\* batch_count (elapsed time and throughput are computed from the clock after
\* the loop and are read by no branch).  Of the branches of the loop
\*     if let Some(row) = row_iter.next()      (the source)
\*     if rows.len() == 0                      (the batch)
\*     if let Err(e) = write_rows_async(..)    (the transport)
\*     if batch_count % 10 == 0                (the batch counter)
\*     if break_out                            (the source)
\* one reads a counter: the condition of the reconciliation poll, here as a
\* function of the reading of batch_count.
poll_due(count) == count % FlushEvery = 0

\* The readings batch_count can have at the reconciliation step of some run.
CounterReadings == 1..MaxRows

MaxSeqRows == 3
\* Largest number of pulls made on one sequence.
MaxPulls == 5

\* The wire row generate_api_row builds at cursor cur ("the same deterministic
\* generation logic as bulk API"): the timestamp and the pool positions of its
\* 22 values.
MakeApiRow(cur, pool_len) ==
    LET base_idx == cur % pool_len
        random_offset == (cur * 7 + 13) % pool_len
    IN [timestamp        |-> BaseTime + cur + (random_offset % TsSpread) - TsShift,
        base_idx         |-> base_idx,
        log_entry_idx    |-> cur % pool_len,
        response_time_ms |-> (base_idx % RtMod) + 1]

\* Fault variant of generate_api_row: the test of the cursor against row_count
\* is off by one (current_row > row_count), so one row too many is produced
\* (from pools of one more entry, so that a provider of no rows has one to give).
generate_api_rowOneMore(cur, rc) ==
    IF cur > rc
    THEN [row |-> NoRow, current_row |-> cur]
    ELSE [row |-> MakeApiRow(cur, pool_size(rc) + 1), current_row |-> cur + 1]

\* LogTableDataProvider::generate_api_row against cursor cur: the wire row (or
\* NoRow for None) and the cursor afterwards.
generate_api_row(cur, rc) ==
    IF cur >= rc
    THEN [row |-> NoRow, current_row |-> cur]
    ELSE [row |-> MakeApiRow(cur, pool_size(rc)), current_row |-> cur + 1]

\* The variables of run_benchmark, which is not running.
run_frame == UNCHANGED <<batch_size, parallelism, pc, rows_buf, break_out, rows_written,
                         batch_count, result, pending, completed, failed, calls,
                         submitted, collected, ackCount, ackRows, write_error>>

\* A fresh provider of k rows (LogTableDataProvider::new: current_row = 0) and
\* a wire-row sequence just obtained (api_rows(): current_row = 0); no run.
InitSequencesWith(k) ==
    /\ row_count = k
    /\ current_row = 0
    /\ api_current_row = 0
    /\ rows_start = 0
    /\ rows_out = <<>>
    /\ api_out = <<>>
    /\ pulls = <<>>
    /\ env = <<>>
    /\ config = <<>>
    /\ bulk_options = <<>>
    /\ values = <<>>
    /\ debug_assertions = FALSE
    /\ call = <<>>
    /\ ret = <<>>
    /\ taken = {}
    /\ schema = <<>>
    /\ schema_calls = <<>>
    /\ pc = "sequences"
    /\ batch_size = 0
    /\ parallelism = 1
    /\ rows_buf = <<>>
    /\ break_out = FALSE
    /\ rows_written = 0
    /\ batch_count = 0
    /\ result = NewResult(k)
    /\ pending = {}
    /\ completed = {}
    /\ failed = {}
    /\ calls = <<>>
    /\ submitted = <<>>
    /\ collected = {}
    /\ ackCount = 0
    /\ ackRows = 0
    /\ write_error = 0

InitSequences == \E k \in 0..MaxSeqRows : InitSequencesWith(k)

\* LogRowIterator::next: self.provider.generate_row().
LogRowIteratorNext ==
    /\ pc = "sequences"
    /\ Len(rows_out) < MaxPulls
    /\ LET r == generate_row(current_row, row_count)
       IN /\ current_row' = r.current_row
          /\ rows_out' = Append(rows_out, r.row)
    /\ pulls' = Append(pulls, "rows")
    /\ UNCHANGED <<row_count, api_current_row, api_out, rows_start>>
    /\ run_frame /\ config_frame /\ row_frame /\ schema_frame

\* Fault variant of ApiRowIteratorNext: the provider's cursor is not put back
\* after the pull (the iterator works on the shared cursor).
ApiRowIteratorNextNoRestore ==
    /\ pc = "sequences"
    /\ Len(api_out) < MaxPulls
    /\ Len(pulls) < 2 * MaxPulls
    /\ LET r == generate_api_row(api_current_row, row_count)
       IN /\ api_current_row' = r.current_row
          /\ current_row' = r.current_row
          /\ api_out' = Append(api_out, r.row)
    /\ pulls' = Append(pulls, "api_rows")
    /\ UNCHANGED <<row_count, rows_out, rows_start>>
    /\ run_frame /\ config_frame /\ row_frame /\ schema_frame

\* Fault variant of ApiRowIteratorNext: the provider's cursor is restored
\* before the iterator takes its cursor back, so the iterator takes the
\* provider's.
ApiRowIteratorNextRestoresFirst ==
    /\ pc = "sequences"
    /\ Len(api_out) < MaxPulls
    /\ Len(pulls) < 2 * MaxPulls
    /\ LET saved_current == current_row
           r == generate_api_row(api_current_row, row_count)
       IN /\ api_current_row' = saved_current
          /\ current_row' = saved_current
          /\ api_out' = Append(api_out, r.row)
    /\ pulls' = Append(pulls, "api_rows")
    /\ UNCHANGED <<row_count, rows_out, rows_start>>
    /\ run_frame /\ config_frame /\ row_frame /\ schema_frame

\* ApiRowIterator::next: the provider's cursor is saved, the iterator's cursor
\* is put in its place, generate_api_row runs, the iterator takes the cursor
\* back and the provider's is restored.
ApiRowIteratorNext ==
    /\ pc = "sequences"
    /\ Len(api_out) < MaxPulls
    /\ Len(pulls) < 2 * MaxPulls
    /\ LET saved_current == current_row
           r == generate_api_row(api_current_row, row_count)
       IN /\ api_current_row' = r.current_row
          /\ current_row' = saved_current
          /\ api_out' = Append(api_out, r.row)
    /\ pulls' = Append(pulls, "api_rows")
    /\ UNCHANGED <<row_count, rows_out, rows_start>>
    /\ run_frame /\ config_frame /\ row_frame /\ schema_frame

\* api_rows(): a new ApiRowIterator { provider: self, current_row: 0 }; the
\* sequence obtained before is dropped.
api_rows ==
    /\ pc = "sequences"
    /\ api_out # <<>>
    /\ api_current_row' = 0
    /\ api_out' = <<>>
    /\ UNCHANGED <<row_count, current_row, rows_out, pulls, rows_start>>
    /\ run_frame /\ config_frame /\ row_frame /\ schema_frame

\* Fault variant of rows: the new sequence starts over from the first row.
rowsStartsOver ==
    /\ pc = "sequences"
    /\ rows_start # Len(rows_out)
    /\ rows_start' = Len(rows_out)
    /\ current_row' = 0
    /\ UNCHANGED <<row_count, api_current_row, rows_out, api_out, pulls>>
    /\ run_frame /\ config_frame /\ row_frame /\ schema_frame

\* rows(): a new LogRowIterator { provider: self }, which has no cursor of its
\* own; the sequence obtained before is dropped.  (Obtaining a sequence again
\* before anything was pulled from the last one changes nothing.)
rows ==
    /\ pc = "sequences"
    /\ rows_start # Len(rows_out)
    /\ rows_start' = Len(rows_out)
    /\ UNCHANGED <<row_count, current_row, api_current_row, rows_out, api_out, pulls>>
    /\ run_frame /\ config_frame /\ row_frame /\ schema_frame

NextSequences ==
    \/ rows
    \/ LogRowIteratorNext
    \/ ApiRowIteratorNext
    \/ api_rows

SpecSequences == InitSequences /\ [][NextSequences]_vars

\* ----------------------------------------------------------------------- C12
\* The rows among what a sequence returned.
Yielded(out) == {i \in 1..Len(out) : out[i] # NoRow}

\* C12: each lazy sequence of a provider of K rows returns a row on its first K
\* pulls and the end of the sequence on every pull after them, however many are
\* made, and neither cursor ever exceeds K.
C12_ExactlyKRowsThenEnd ==
    /\ Yielded(rows_out) = 1..Min(Len(rows_out), row_count)
    /\ Yielded(api_out) = 1..Min(Len(api_out), row_count)
    /\ current_row <= row_count
    /\ api_current_row <= row_count
    /\ current_row = Cardinality(Yielded(rows_out))
    /\ api_current_row = Cardinality(Yielded(api_out))

\* Both sequences of a provider with rows have been pulled to their end and
\* at least twice beyond it.
C12_Witness ==
    /\ row_count >= 2
    /\ Len(rows_out) >= row_count + 2
    /\ Len(api_out) >= row_count + 2

\* ----------------------------------------------------------------------- C13
RECURSIVE DriveRowsAlone(_, _, _)
\* What n pulls return from the structured-row sequence of a fresh provider of
\* rc rows when nothing else touches the provider (cur is the cursor so far).
DriveRowsAlone(n, cur, rc) ==
    IF n = 0 THEN <<>>
    ELSE LET r == generate_row(cur, rc)
         IN <<r.row>> \o DriveRowsAlone(n - 1, r.current_row, rc)

RECURSIVE DriveApiRowsAlone(_, _, _)
\* The same for a wire-row sequence just obtained from api_rows().
DriveApiRowsAlone(n, cur, rc) ==
    IF n = 0 THEN <<>>
    ELSE LET r == generate_api_row(cur, rc)
         IN <<r.row>> \o DriveApiRowsAlone(n - 1, r.current_row, rc)

\* C13: in every serialized interleaving of pulls on the two sequences of one
\* provider, each sequence returns what it returns when driven alone, in the
\* same order; a pull on one sequence leaves the other's cursor where it was.
C13_SequencesIndependent ==
    /\ [](/\ rows_out = DriveRowsAlone(Len(rows_out), 0, row_count)
          /\ api_out = DriveApiRowsAlone(Len(api_out), 0, row_count))
    /\ [][/\ api_out' # api_out => current_row' = current_row
          /\ rows_out' # rows_out => api_current_row' = api_current_row]_vars

\* Four pulls in strict alternation, each returning a row, on a provider that
\* has more rows to give.
C13_Witness ==
    /\ pulls = <<"rows", "api_rows", "rows", "api_rows">>
    /\ Yielded(rows_out) = {1, 2}
    /\ Yielded(api_out) = {1, 2}
    /\ current_row < row_count

\* ========================================================= the configuration
\* BenchmarkConfig::from_env and BulkApiBenchmarkRunner::create_bulk_options,
\* applied to an environment.  Texts that the code converts (parse,
\* to_lowercase) are sequences of characters; texts it passes on are strings.

\* Option<T>
None == [some |-> FALSE]
Some(v) == [some |-> TRUE, value |-> v]

\* unwrap_or(2_000_000), unwrap_or(100_000), unwrap_or(8) in from_env
DefaultTableRowCount == 2000000
DefaultBatchSize == 100000
DefaultParallelism == 8
\* .with_timeout(Duration::from_secs(60))
TimeoutSecs == 60

Digits == <<"0", "1", "2", "3", "4", "5", "6", "7", "8", "9">>
LowerCaseLetters == <<"a", "d", "e", "f", "g", "i", "l", "n", "o", "p", "s", "t", "z">>
UpperCaseLetters == <<"A", "D", "E", "F", "G", "I", "L", "N", "O", "P", "S", "T", "Z">>

IsDigit(c) == \E i \in 1..Len(Digits) : Digits[i] = c
DigitValue(c) == (CHOOSE i \in 1..Len(Digits) : Digits[i] = c) - 1

RECURSIVE DigitsValue(_, _)
\* The number a sequence of digits denotes, acc being the value of the digits
\* read so far.
DigitsValue(s, acc) ==
    IF s = <<>> THEN acc
    ELSE DigitsValue(Tail(s), acc * 10 + DigitValue(Head(s)))

\* str::parse::<usize>: an optional "+" and at least one digit, nothing else
\* (the texts explored are too short to overflow usize).
parse(s) ==
    LET digits == IF s # <<>> /\ Head(s) = "+" THEN Tail(s) ELSE s
    IN IF digits # <<>> /\ \A i \in 1..Len(digits) : IsDigit(digits[i])
       THEN Some(DigitsValue(digits, 0))
       ELSE None

\* char::to_lowercase on the characters explored: an upper-case letter becomes
\* its lower-case letter, every other character stays.
to_lowercase_char(c) ==
    IF \E i \in 1..Len(UpperCaseLetters) : UpperCaseLetters[i] = c
    THEN LowerCaseLetters[CHOOSE i \in 1..Len(UpperCaseLetters) : UpperCaseLetters[i] = c]
    ELSE c

\* str::to_lowercase
to_lowercase(s) == [i \in 1..Len(s) |-> to_lowercase_char(s[i])]

\* std::env::var(..).unwrap_or_else(|_| d)
var_or(v, d) == IF v.some THEN v.value ELSE d

\* std::env::var(..).ok().and_then(|s| s.parse().ok()).unwrap_or(d)
parsed_var_or(v, d) ==
    IF v.some /\ parse(v.value).some THEN parse(v.value).value ELSE d

\* BenchmarkConfig::from_env
from_env(e) ==
    [endpoint        |-> var_or(e.GREPTIME_ENDPOINT, "localhost:4001"),
     dbname          |-> var_or(e.GREPTIMEDB_DBNAME, "public"),
     table_row_count |-> parsed_var_or(e.TABLE_ROW_COUNT, DefaultTableRowCount),
     batch_size      |-> parsed_var_or(e.BATCH_SIZE, DefaultBatchSize),
     parallelism     |-> parsed_var_or(e.PARALLELISM, DefaultParallelism),
     compression     |-> var_or(e.COMPRESSION, <<"l", "z", "4">>)]

\* Fault variant of create_bulk_options: the name is matched as it is written,
\* without to_lowercase.
create_bulk_optionsCaseSensitive(cfg) ==
    LET name == cfg.compression
        compression ==
            CASE name \in {<<"n", "o", "n", "e">>, <<"f", "a", "l", "s", "e">>, <<"0">>}
                   -> "None"
              [] name = <<"l", "z", "4">> -> "Lz4"
              [] name = <<"z", "s", "t", "d">> -> "Zstd"
              [] OTHER -> "Lz4"
    IN [compression |-> compression,
        parallelism |-> cfg.parallelism,
        timeout     |-> TimeoutSecs]

\* BulkApiBenchmarkRunner::create_bulk_options
create_bulk_options(cfg) ==
    LET name == to_lowercase(cfg.compression)
        compression ==
            CASE name \in {<<"n", "o", "n", "e">>, <<"f", "a", "l", "s", "e">>, <<"0">>}
                   -> "None"
              [] name = <<"l", "z", "4">> -> "Lz4"
              [] name = <<"z", "s", "t", "d">> -> "Zstd"
              [] OTHER -> "Lz4"
    IN [compression |-> compression,
        parallelism |-> cfg.parallelism,
        timeout     |-> TimeoutSecs]

\* ------------------------------------------------------ the environments explored
\* The ways of writing character c: itself and, for a lower-case letter, its
\* upper-case letter.
CasesOf(c) ==
    {c} \cup {UpperCaseLetters[j] : j \in {i \in 1..Len(LowerCaseLetters) :
                                                LowerCaseLetters[i] = c}}

RECURSIVE CaseVariants(_)
\* Every way of writing the word w in upper- and lower-case letters.
CaseVariants(w) ==
    IF w = <<>> THEN {<<>>}
    ELSE {<<c>> \o rest : c \in CasesOf(Head(w)), rest \in CaseVariants(Tail(w))}

CompressionNames ==
    CaseVariants(<<"n", "o", "n", "e">>) \cup CaseVariants(<<"f", "a", "l", "s", "e">>)
    \cup CaseVariants(<<"l", "z", "4">>) \cup CaseVariants(<<"z", "s", "t", "d">>)
    \cup CaseVariants(<<"g", "z", "i", "p">>)
    \cup {<<"0">>, <<"1">>, <<>>, <<"o", "f", "f">>, <<"l", "z">>, <<"l", "z", "4", " ">>,
          <<"n", "o">>, <<"z", "s", "t", "d", "1">>}

Environments ==
    [GREPTIME_ENDPOINT : {None, Some("db.example:4001")},
     GREPTIMEDB_DBNAME : {None, Some("metrics")},
     TABLE_ROW_COUNT   : {None, Some(<<"1", "2">>), Some(<<"x">>)},
     BATCH_SIZE        : {None, Some(<<"+", "5">>), Some(<<>>)},
     PARALLELISM       : {None, Some(<<"2">>), Some(<<"2", "x">>)},
     COMPRESSION       : {None} \cup {Some(n) : n \in CompressionNames}]

\* The benchmark's main is about to read its configuration from environment e;
\* no provider, no run.
InitConfigWith(e) ==
    /\ env = e
    /\ config = <<>>
    /\ bulk_options = <<>>
    /\ pc = "from_env"
    /\ values = <<>>
    /\ debug_assertions = FALSE
    /\ call = <<>>
    /\ ret = <<>>
    /\ taken = {}
    /\ schema = <<>>
    /\ schema_calls = <<>>
    /\ row_count = 0
    /\ current_row = 0
    /\ api_current_row = 0
    /\ rows_start = 0
    /\ rows_out = <<>>
    /\ api_out = <<>>
    /\ pulls = <<>>
    /\ batch_size = 0
    /\ parallelism = 1
    /\ rows_buf = <<>>
    /\ break_out = FALSE
    /\ rows_written = 0
    /\ batch_count = 0
    /\ result = NewResult(0)
    /\ pending = {}
    /\ completed = {}
    /\ failed = {}
    /\ calls = <<>>
    /\ submitted = <<>>
    /\ collected = {}
    /\ ackCount = 0
    /\ ackRows = 0
    /\ write_error = 0

InitConfig == \E e \in Environments : InitConfigWith(e)

\* let config = BenchmarkConfig::from_env();
FromEnv ==
    /\ pc = "from_env"
    /\ config' = from_env(env)
    /\ pc' = "create_bulk_options"
    /\ UNCHANGED <<env, bulk_options, row_count, current_row>>
    /\ UNCHANGED <<batch_size, parallelism, rows_buf, break_out, rows_written,
                   batch_count, result, pending, completed, failed, calls,
                   submitted, collected, ackCount, ackRows, write_error>>
    /\ sequence_frame /\ row_frame /\ schema_frame

\* let bulk_options = self.create_bulk_options(); the run goes on to create
\* the bulk stream writer with them.
CreateBulkOptions ==
    /\ pc = "create_bulk_options"
    /\ bulk_options' = create_bulk_options(config)
    /\ pc' = "options_built"
    /\ UNCHANGED <<env, config, row_count, current_row>>
    /\ UNCHANGED <<batch_size, parallelism, rows_buf, break_out, rows_written,
                   batch_count, result, pending, completed, failed, calls,
                   submitted, collected, ackCount, ackRows, write_error>>
    /\ sequence_frame /\ row_frame /\ schema_frame

NextConfig ==
    \/ FromEnv
    \/ CreateBulkOptions

SpecConfig == InitConfig /\ [][NextConfig]_vars

\* ----------------------------------------------------------------------- C14
\* Two names are the same but for the case of their letters.
SameIgnoringCase(a, b) ==
    /\ Len(a) = Len(b)
    /\ \A i \in 1..Len(a) :
          \/ a[i] = b[i]
          \/ \E j \in 1..Len(LowerCaseLetters) :
                {a[i], b[i]} = {LowerCaseLetters[j], UpperCaseLetters[j]}

\* The compression the claim gives for a name.
CompressionFor(name) ==
    IF \E w \in {<<"n", "o", "n", "e">>, <<"f", "a", "l", "s", "e">>, <<"0">>} :
           SameIgnoringCase(name, w)
    THEN "None"
    ELSE IF SameIgnoringCase(name, <<"z", "s", "t", "d">>)
    THEN "Zstd"
    ELSE "Lz4"

\* C14: building the bulk write options never fails: whatever the compression
\* name, create_bulk_options can be taken, and the options it builds have no
\* compression for "none", "false" and "0", Lz4 for "lz4", Zstd for "zstd"
\* (letters of either case) and Lz4 for every other name.
C14_CompressionNameNeverFails ==
    /\ pc = "create_bulk_options" => ENABLED CreateBulkOptions
    /\ pc = "options_built" =>
          /\ bulk_options.compression = CompressionFor(config.compression)
          /\ bulk_options.parallelism = config.parallelism

\* Options were built for an unknown name, and for a known one written in
\* capitals.
C14_Witness ==
    /\ pc = "options_built"
    /\ \/ /\ config.compression = <<"g", "z", "i", "p">>
          /\ bulk_options.compression = "Lz4"
          /\ env.PARALLELISM = None
       \/ /\ config.compression = <<"N", "O", "N", "E">>
          /\ bulk_options.compression = "None"
          /\ env.PARALLELISM = None

\* ----------------------------------------------------------------------- C15
\* The defaults the benchmarks document ("Environment variables:" in the
\* module docs of bulk_api_log_benchmark.rs and regular_api_log_benchmark.rs).
DocTableRowCount == 1000000
DocBatchSize == 64 * 1024
DocParallelism == 8

\* C15: for every environment variable that is unset, the configuration
\* from_env builds has the documented default: localhost:4001, public,
\* 1_000_000 rows, batches of 64 * 1024, parallelism 8, lz4.
C15_DocumentedDefaults ==
    pc # "from_env" =>
        /\ env.GREPTIME_ENDPOINT = None => config.endpoint = "localhost:4001"
        /\ env.GREPTIMEDB_DBNAME = None => config.dbname = "public"
        /\ env.TABLE_ROW_COUNT = None => config.table_row_count = DocTableRowCount
        /\ env.BATCH_SIZE = None => config.batch_size = DocBatchSize
        /\ env.PARALLELISM = None => config.parallelism = DocParallelism
        /\ env.COMPRESSION = None => config.compression = <<"l", "z", "4">>

\* ================================================================== the Row
\* Row (src/table.rs): a list of Values and its typed accessors, called on a
\* row built by Row::from_values, in a debug build (cfg!(debug_assertions)) and
\* in a release build.  Indexes are the code's (from 0); slot index of the row
\* is values[index + 1].  A text payload is its sequence of Unicode scalar
\* values, a binary payload its sequence of bytes; numbers below 2^31 stand
\* for the payloads of the numeric cases (the floats and the wide integers
\* among them): no accessor computes with a payload.

\* Value::Null and the other cases of Value.
Null == [case |-> "Null"]
Val(case, payload) == [case |-> case, payload |-> payload]

\* The panic of handle_type_mismatch, with its message.
Panic(message) == [some |-> FALSE, panic |-> message]
Panicked(r) == "panic" \in DOMAIN r

RECURSIVE as_bytes(_)
\* str::as_bytes / String::into_bytes: the UTF-8 encoding of the text, one to
\* four bytes for each scalar value.
as_bytes(text) ==
    IF text = <<>> THEN <<>>
    ELSE LET c == Head(text)
             bytes ==
                 IF c < 128 THEN <<c>>
                 ELSE IF c < 2048 THEN <<192 + (c \div 64), 128 + (c % 64)>>
                 ELSE IF c < 65536
                 THEN <<224 + (c \div 4096), 128 + ((c \div 64) % 64), 128 + (c % 64)>>
                 ELSE <<240 + (c \div 262144), 128 + ((c \div 4096) % 64),
                        128 + ((c \div 64) % 64), 128 + (c % 64)>>
         IN bytes \o as_bytes(Tail(text))

\* The accessor families get_T / get_T_unchecked, named by the expected type
\* they pass to handle_type_mismatch.
AccessorTypes ==
    {"boolean", "i8", "i16", "i32", "i64", "u8", "u16", "u32", "u64", "f32", "f64",
     "binary", "string", "date", "datetime", "timestamp", "time32", "time64",
     "decimal128"}

\* take_binary, take_string (and their unchecked variants)
TakeTypes == {"binary", "string"}

\* The cases the match of get_T has an arm for, besides Value::Null.
Accepts(T) ==
    CASE T = "boolean"    -> {"Boolean"}
      [] T = "i8"         -> {"Int8"}
      [] T = "i16"        -> {"Int16"}
      [] T = "i32"        -> {"Int32"}
      [] T = "i64"        -> {"Int64"}
      [] T = "u8"         -> {"Uint8"}
      [] T = "u16"        -> {"Uint16"}
      [] T = "u32"        -> {"Uint32"}
      [] T = "u64"        -> {"Uint64"}
      [] T = "f32"        -> {"Float32"}
      [] T = "f64"        -> {"Float64"}
      [] T = "binary"     -> {"Binary", "String"}
      [] T = "string"     -> {"String"}
      [] T = "date"       -> {"Date"}
      [] T = "datetime"   -> {"Datetime"}
      [] T = "timestamp"  -> {"TimestampSecond", "TimestampMillisecond",
                              "TimestampMicrosecond", "TimestampNanosecond"}
      [] T = "time32"     -> {"TimeSecond", "TimeMillisecond"}
      [] T = "time64"     -> {"TimeMicrosecond", "TimeNanosecond"}
      [] T = "decimal128" -> {"Decimal128"}

\* Fault variant of handle_type_mismatch: the release behaviour in every build.
handle_type_mismatchSilent(index, expected, actual, debug) == [some |-> FALSE]

\* handle_type_mismatch: panic!("Expected '{expected}' value at index {index},
\* got {actual:?}") under debug assertions, None otherwise.  The message is
\* the sequence of its parts (the quotes around the expected type are
\* backquotes in the code); {actual:?} prints the case and its payload.
handle_type_mismatch(index, expected, actual, debug) ==
    IF debug
    THEN Panic(<<"Expected '", expected, "' value at index ", index, ", got ",
                 <<actual.case, actual.payload>> >>)
    ELSE None

\* Fault variant of match_value: binary access has no arm for Value::String.
match_valueNoTextArm(T, v, index, debug) ==
    IF v.case \in Accepts(T) /\ ~(T = "binary" /\ v.case = "String")
    THEN Some(v.payload)
    ELSE IF v.case = "Null"
    THEN None
    ELSE handle_type_mismatch(index, T, v, debug)

\* The match of every accessor on the value of the slot:
\*     Value::<case of T>(v) => Some(*v) / Some(v.clone()),
\*     Value::String(v) => Some(v.as_bytes().to_vec())      (binary only)
\*     Value::Null => None,
\*     other => handle_type_mismatch(index, "<T>", other)
match_value(T, v, index, debug) ==
    IF v.case \in Accepts(T)
    THEN IF T = "binary" /\ v.case = "String"
         THEN Some(as_bytes(v.payload))
         ELSE Some(v.payload)
    ELSE IF v.case = "Null"
    THEN None
    ELSE handle_type_mismatch(index, T, v, debug)

\* Fault variant of get_T: the index is taken from 1.
get_TFromOne(T, vals, index, debug) ==
    IF index = 0 \/ index > Len(vals)
    THEN [some |-> FALSE]
    ELSE match_value(T, vals[index], index, debug)

\* Fault variant of get_T: the slot is read as self.values[index], which panics
\* when the index is out of range.
get_TPanicsOutOfRange(T, vals, index, debug) ==
    IF index >= Len(vals)
    THEN Panic(<<"index out of bounds: the len is ", Len(vals), " but the index is ",
                 index>>)
    ELSE match_value(T, vals[index + 1], index, debug)

\* get_T(index): match self.values.get(index)? { .. }
get_T(T, vals, index, debug) ==
    IF index >= Len(vals)
    THEN None
    ELSE match_value(T, vals[index + 1], index, debug)

\* The match blocks of the get_T_unchecked functions, which are written out
\* apart from those of the get_T functions: for each, the cases it has a
\* value arm for and the type name its mismatch arm hands on.
UncheckedArms(T) ==
    CASE T = "boolean"    -> [cases |-> {"Boolean"}, expected |-> "boolean"]
      [] T = "i8"         -> [cases |-> {"Int8"}, expected |-> "i8"]
      [] T = "i16"        -> [cases |-> {"Int16"}, expected |-> "i16"]
      [] T = "i32"        -> [cases |-> {"Int32"}, expected |-> "i32"]
      [] T = "i64"        -> [cases |-> {"Int64"}, expected |-> "i64"]
      [] T = "u8"         -> [cases |-> {"Uint8"}, expected |-> "u8"]
      [] T = "u16"        -> [cases |-> {"Uint16"}, expected |-> "u16"]
      [] T = "u32"        -> [cases |-> {"Uint32"}, expected |-> "u32"]
      [] T = "u64"        -> [cases |-> {"Uint64"}, expected |-> "u64"]
      [] T = "f32"        -> [cases |-> {"Float32"}, expected |-> "f32"]
      [] T = "f64"        -> [cases |-> {"Float64"}, expected |-> "f64"]
      [] T = "binary"     -> [cases |-> {"Binary", "String"}, expected |-> "binary"]
      [] T = "string"     -> [cases |-> {"String"}, expected |-> "string"]
      [] T = "date"       -> [cases |-> {"Date"}, expected |-> "date"]
      [] T = "datetime"   -> [cases |-> {"Datetime"}, expected |-> "datetime"]
      [] T = "timestamp"  -> [cases |-> {"TimestampSecond", "TimestampMillisecond",
                                         "TimestampMicrosecond", "TimestampNanosecond"},
                              expected |-> "timestamp"]
      [] T = "time32"     -> [cases |-> {"TimeSecond", "TimeMillisecond"},
                              expected |-> "time32"]
      [] T = "time64"     -> [cases |-> {"TimeMicrosecond", "TimeNanosecond"},
                              expected |-> "time64"]
      [] T = "decimal128" -> [cases |-> {"Decimal128"}, expected |-> "decimal128"]

\* The match of a get_T_unchecked function on the value of the slot:
\*     Value::<case of T>(v) => Some(*v) / Some(v.clone()),
\*     Value::String(v) => Some(v.as_bytes().to_vec())      (binary only)
\*     Value::Null => None,
\*     other => handle_type_mismatch(index, "<T>", other)
match_value_unchecked(T, v, index, debug) ==
    IF v.case \in UncheckedArms(T).cases
    THEN IF T = "binary" /\ v.case = "String"
         THEN Some(as_bytes(v.payload))
         ELSE Some(v.payload)
    ELSE IF v.case = "Null"
    THEN None
    ELSE handle_type_mismatch(index, UncheckedArms(T).expected, v, debug)

\* Fault variant of get_T_unchecked: the match has no Value::Null arm, so Null
\* falls to the mismatch arm.
get_T_uncheckedNoNullArm(T, vals, index, debug) ==
    IF vals[index + 1].case = "Null"
    THEN handle_type_mismatch(index, UncheckedArms(T).expected,
                              [case |-> "Null", payload |-> <<>>], debug)
    ELSE match_value_unchecked(T, vals[index + 1], index, debug)

\* get_T_unchecked(index): match self.values.get_unchecked(index) { .. }; the
\* caller must ensure index < self.values.len().
get_T_unchecked(T, vals, index, debug) ==
    match_value_unchecked(T, vals[index + 1], index, debug)

\* Fault variant of take_T_unchecked: the payload is cloned out of the slot,
\* which keeps its value.
take_T_uncheckedKeepsSlot(T, vals, index, debug) ==
    [values |-> vals, ret |-> match_value(T, vals[index + 1], index, debug)]

\* Fault variant of take_T_unchecked: a value of a case the accessor does not
\* accept is put back into its slot.
take_T_uncheckedPutsBack(T, vals, index, debug) ==
    [values |-> IF vals[index + 1].case \in Accepts(T)
                THEN [vals EXCEPT ![index + 1] = Null]
                ELSE vals,
     ret    |-> match_value(T, vals[index + 1], index, debug)]

\* take_T_unchecked(index): match std::mem::replace(slot, Value::Null) { .. }:
\* the row afterwards and what is returned.
take_T_unchecked(T, vals, index, debug) ==
    [values |-> [vals EXCEPT ![index + 1] = Null],
     ret    |-> match_value(T, vals[index + 1], index, debug)]

\* take_T(index): if index >= self.values.len() { return None }
\*                unsafe { self.take_T_unchecked(index) }
take_T(T, vals, index, debug) ==
    IF index >= Len(vals)
    THEN [values |-> vals, ret |-> None]
    ELSE take_T_unchecked(T, vals, index, debug)

\* Row::from_values(values): Self { values }
from_values(vals) == vals

\* Row::add_value(value): self.values.push(value); self
add_value(vals, value) == Append(vals, value)

\* Row::add_values(values): self.values.extend(values); self
add_values(vals, more) == vals \o more

\* Row::add_values_iter(values): self.values.extend(values); self
add_values_iter(vals, more) == vals \o more

\* ------------------------------------------------------------ the rows explored
\* Values of every case of Value.
SampleValues ==
    {Null,
     Val("Boolean", TRUE), Val("Boolean", FALSE),
     Val("Int8", -7), Val("Int16", 300), Val("Int32", 42), Val("Int64", 2000000001),
     Val("Uint8", 200), Val("Uint16", 60000), Val("Uint32", 2000000002),
     Val("Uint64", 2000000003),
     Val("Float32", 2), Val("Float64", 3),
     Val("Binary", <<0, 255, 116>>), Val("Binary", <<>>),
     Val("String", <<116, 101, 115, 116>>), Val("String", <<116, 233, 8364, 128512>>),
     Val("String", <<>>),
     Val("Date", 19000), Val("Datetime", 1700000004),
     Val("TimestampSecond", 1700000000), Val("TimestampMillisecond", 1700000001),
     Val("TimestampMicrosecond", 1700000002), Val("TimestampNanosecond", 1700000003),
     Val("TimeSecond", 3600), Val("TimeMillisecond", 3600000),
     Val("TimeMicrosecond", 360000001), Val("TimeNanosecond", 360000002),
     Val("Decimal128", 12345),
     Val("Json", <<123, 125>>)}

\* The values standing next to them in the rows of two values.
Companions == {Val("Int32", 42), Val("String", <<233>>)}

\* Largest number of values of a row that is added to.
MaxValues == 2

\* What is added to a row after it was built (one value keeps the rows of
\* MaxValues + 1 values within reach), and the vectors of it.
AddedValues == {Val("Int32", 7)}
AddedVectors == UNION {[1..n -> AddedValues] : n \in 0..MaxValues}

Rows ==
    {<<>>} \cup {<<v>> : v \in SampleValues}
    \cup {<<v, w>> : v \in SampleValues, w \in Companions}
    \cup {<<w, v>> : v \in SampleValues, w \in Companions}

\* A row just built by Row::from_values(vals) in a build with (debug) or
\* without debug assertions; no provider, no run.
InitRowWith(vals, debug) ==
    /\ values = from_values(vals)
    /\ debug_assertions = debug
    /\ call = <<>>
    /\ ret = <<>>
    /\ taken = {}
    /\ schema = <<>>
    /\ schema_calls = <<>>
    /\ pc = "row"
    /\ env = <<>>
    /\ config = <<>>
    /\ bulk_options = <<>>
    /\ row_count = 0
    /\ current_row = 0
    /\ api_current_row = 0
    /\ rows_start = 0
    /\ rows_out = <<>>
    /\ api_out = <<>>
    /\ pulls = <<>>
    /\ batch_size = 0
    /\ parallelism = 1
    /\ rows_buf = <<>>
    /\ break_out = FALSE
    /\ rows_written = 0
    /\ batch_count = 0
    /\ result = NewResult(0)
    /\ pending = {}
    /\ completed = {}
    /\ failed = {}
    /\ calls = <<>>
    /\ submitted = <<>>
    /\ collected = {}
    /\ ackCount = 0
    /\ ackRows = 0
    /\ write_error = 0

InitRow == \E vals \in Rows, debug \in BOOLEAN : InitRowWith(vals, debug)

\* Everything but the row and the position of its caller.
not_row_frame ==
    /\ UNCHANGED <<row_count, current_row, batch_size, parallelism, rows_buf, break_out,
                   rows_written, batch_count, result, pending, completed, failed,
                   calls, submitted, collected, ackCount, ackRows, write_error>>
    /\ sequence_frame /\ config_frame /\ schema_frame

\* The caller after an accessor returned r: a panic ends it.
AfterCall(r) == IF Panicked(r) THEN "panicked" ELSE "row"

\* row.get_T(index), for any accessor and any index up to the first one out of
\* range.
GetT ==
    /\ pc = "row"
    /\ \E T \in AccessorTypes, index \in 0..Len(values) :
          LET r == get_T(T, values, index, debug_assertions)
          IN /\ ret' = r
             /\ call' = [name |-> "get", type |-> T, index |-> index]
             /\ pc' = AfterCall(r)
    /\ UNCHANGED <<values, debug_assertions, taken>>
    /\ not_row_frame

\* unsafe { row.get_T_unchecked(index) }, for any accessor and any index in range.
GetTUnchecked ==
    /\ pc = "row"
    /\ \E T \in AccessorTypes, index \in 0..(Len(values) - 1) :
          LET r == get_T_unchecked(T, values, index, debug_assertions)
          IN /\ ret' = r
             /\ call' = [name |-> "get_unchecked", type |-> T, index |-> index]
             /\ pc' = AfterCall(r)
    /\ UNCHANGED <<values, debug_assertions, taken>>
    /\ not_row_frame

\* row.take_T(index), for binary and string and any index up to the first one
\* out of range.
TakeT ==
    /\ pc = "row"
    /\ \E T \in TakeTypes, index \in 0..Len(values) :
          LET t == take_T(T, values, index, debug_assertions)
          IN /\ values' = t.values
             /\ ret' = t.ret
             /\ call' = [name |-> "take", type |-> T, index |-> index]
             /\ pc' = AfterCall(t.ret)
             /\ taken' = IF t.ret.some THEN taken \cup {index} ELSE taken
    /\ UNCHANGED debug_assertions
    /\ not_row_frame

\* unsafe { row.take_T_unchecked(index) }, for binary and string and any index
\* in range.
TakeTUnchecked ==
    /\ pc = "row"
    /\ \E T \in TakeTypes, index \in 0..(Len(values) - 1) :
          LET t == take_T_unchecked(T, values, index, debug_assertions)
          IN /\ values' = t.values
             /\ ret' = t.ret
             /\ call' = [name |-> "take_unchecked", type |-> T, index |-> index]
             /\ pc' = AfterCall(t.ret)
             /\ taken' = IF t.ret.some THEN taken \cup {index} ELSE taken
    /\ UNCHANGED debug_assertions
    /\ not_row_frame

\* row = row.add_value(value): the row grows by one value at its end.
AddValue ==
    /\ pc = "row"
    /\ Len(values) < MaxValues
    /\ \E value \in AddedValues :
          /\ values' = add_value(values, value)
          /\ ret' = [row |-> add_value(values, value)]
    /\ call' = [name |-> "add_value"]
    /\ UNCHANGED <<pc, debug_assertions, taken>>
    /\ not_row_frame

\* row = row.add_values(vec): the row grows by the values of the vector.
AddValues ==
    /\ pc = "row"
    /\ \E more \in AddedVectors :
          /\ Len(values) + Len(more) <= MaxValues
          /\ values' = add_values(values, more)
          /\ ret' = [row |-> add_values(values, more)]
    /\ call' = [name |-> "add_values"]
    /\ UNCHANGED <<pc, debug_assertions, taken>>
    /\ not_row_frame

\* row = row.add_values_iter(iter): the row grows by what the iterator yields.
AddValuesIter ==
    /\ pc = "row"
    /\ \E more \in AddedVectors :
          /\ Len(values) + Len(more) <= MaxValues
          /\ values' = add_values_iter(values, more)
          /\ ret' = [row |-> add_values_iter(values, more)]
    /\ call' = [name |-> "add_values_iter"]
    /\ UNCHANGED <<pc, debug_assertions, taken>>
    /\ not_row_frame

NextRow ==
    \/ AddValue
    \/ AddValues
    \/ AddValuesIter
    \/ GetT
    \/ GetTUnchecked
    \/ TakeT
    \/ TakeTUnchecked

SpecRow == InitRow /\ [][NextRow]_vars

\* ------------------------------------------------------ vocabulary of C16..C20
\* An accessor has been called on the row.
Called == DOMAIN call # {}

\* The slot the last call was made on is in the row.
InRange == call.index < Len(values)

\* The value of that slot.
Slot == values[call.index + 1]

\* The cases of Value that store a payload of type T.
CasesOfType(T) ==
    CASE T = "boolean" -> {"Boolean"}
      [] T = "i8" -> {"Int8"}     [] T = "i16" -> {"Int16"}
      [] T = "i32" -> {"Int32"}   [] T = "i64" -> {"Int64"}
      [] T = "u8" -> {"Uint8"}    [] T = "u16" -> {"Uint16"}
      [] T = "u32" -> {"Uint32"}  [] T = "u64" -> {"Uint64"}
      [] T = "f32" -> {"Float32"} [] T = "f64" -> {"Float64"}
      [] T = "binary" -> {"Binary"}
      [] T = "string" -> {"String"}
      [] T = "date" -> {"Date"}
      [] T = "datetime" -> {"Datetime"}
      [] T = "timestamp" -> {"TimestampSecond", "TimestampMillisecond",
                             "TimestampMicrosecond", "TimestampNanosecond"}
      [] T = "time32" -> {"TimeSecond", "TimeMillisecond"}
      [] T = "time64" -> {"TimeMicrosecond", "TimeNanosecond"}
      [] T = "decimal128" -> {"Decimal128"}

\* ----------------------------------------------------------------------- C16
\* C16: get_T at an index in range whose slot holds a case of type T returns
\* the payload stored there; the call leaves the row as it was, and the same
\* call made again returns the same.
C16_GetReturnsStoredPayload ==
    /\ []((Called /\ call.name = "get" /\ InRange
             /\ Slot.case \in CasesOfType(call.type)) =>
            /\ ret = Some(Slot.payload)
            /\ pc = "row"
            /\ get_T(call.type, values, call.index, debug_assertions) = ret)
    /\ [][call'.name = "get" => values' = values]_vars

\* get_timestamp(1) returned the microsecond timestamp of the second slot of a
\* row of two values.
C16_Witness ==
    /\ Called /\ call.name = "get" /\ call.type = "timestamp" /\ call.index = 1
    /\ Len(values) = 2
    /\ values[2].case = "TimestampMicrosecond"
    /\ ret = Some(1700000002)

\* ----------------------------------------------------------------------- C17
\* C17: get_T returns no value, in a debug and in a release build alike and
\* without a panic, when its index is out of range and when the slot holds
\* Null, whatever T is, and leaves the row as it was; take_string and
\* take_binary at an index out of range return no value and leave the row as it
\* was.
C17_GetFailsSoftly ==
    /\ []((Called /\ call.name = "get" /\ (~InRange \/ Slot = Null)) =>
            (ret = None /\ pc = "row"))
    /\ []((Called /\ call.name = "take" /\ call.index >= Len(values)) =>
            (ret = None /\ pc = "row"))
    /\ [][/\ (call'.name = "get" /\ (call'.index >= Len(values)
                                      \/ values[call'.index + 1] = Null)) =>
                values' = values
          /\ (call'.name = "take" /\ call'.index >= Len(values)) =>
                (values' = values /\ taken' = taken)]_vars

\* In a debug build, get_i64 was called one past the end of a row of two
\* values, the second of them Null, and returned no value.
C17_Witness ==
    /\ debug_assertions
    /\ Called /\ call.name = "get" /\ call.type = "i64" /\ call.index = 2
    /\ Len(values) = 2 /\ values[2] = Null /\ values[1] # Null
    /\ ret = None

\* ----------------------------------------------------------------------- C18
\* The non-null cases get_T gives a value for: the cases of type T and, for
\* binary access, text.
GivesValue(T) == CasesOfType(T) \cup (IF T = "binary" THEN {"String"} ELSE {})

\* C18: get_T and get_T_unchecked on a slot holding a non-null case they do
\* not accept never return a value: in a debug build they panic, the message
\* naming the expected type, the index and the stored value, and in a release
\* build they return no value and do not panic.
C18_MismatchPanicsOnlyInDebug ==
    (Called /\ call.name \in {"get", "get_unchecked"} /\ InRange
        /\ Slot # Null /\ Slot.case \notin GivesValue(call.type)) =>
       /\ ~ret.some
       /\ debug_assertions =>
             /\ Panicked(ret)
             /\ pc = "panicked"
             /\ ret.panic[2] = call.type
             /\ ret.panic[4] = call.index
             /\ ret.panic[6] = <<Slot.case, Slot.payload>>
       /\ ~debug_assertions => (ret = None /\ pc = "row")

\* In a debug build get_i64_unchecked panicked on a stored Int32, and the
\* message names i64, the index and Int32(42).
C18_Witness ==
    /\ debug_assertions /\ pc = "panicked"
    /\ call.name = "get_unchecked" /\ call.type = "i64" /\ call.index = 0
    /\ values[1] = Val("Int32", 42)
    /\ ret = Panic(<<"Expected '", "i64", "' value at index ", 0, ", got ",
                     <<"Int32", 42>> >>)

\* ----------------------------------------------------------------------- C19
\* C19: take_string on a slot in range holding text, and take_binary on one
\* holding binary, returns the payload and leaves Null in the slot, every other
\* slot and the length of the row as they were; after that every take and
\* every get at that index returns no value.
C19_TakeLeavesNull ==
    [][/\ (call'.name = "take" /\ call'.index < Len(values)
             /\ values[call'.index + 1].case \in CasesOfType(call'.type)) =>
             /\ ret' = Some(values[call'.index + 1].payload)
             /\ Len(values') = Len(values)
             /\ values'[call'.index + 1] = Null
             /\ \A j \in 1..Len(values) : j # call'.index + 1 => values'[j] = values[j]
             /\ pc' = "row"
       /\ (call'.name \in {"take", "get"} /\ call'.index \in taken) =>
             /\ ret' = None
             /\ values' = values
             /\ pc' = "row"]_vars

\* take_string(0) returned the text of the first slot, and take_string(0)
\* called again returned no value; the second slot still holds its value.
C19_Witness ==
    /\ Called /\ call.name = "take" /\ call.type = "string" /\ call.index = 0
    /\ taken = {0}
    /\ ret = None
    /\ values = <<Null, Val("Int32", 42)>>

\* ----------------------------------------------------------------------- C20
\* The number of bytes of the UTF-8 sequence that starts with byte b.
Utf8Width(b) == IF b < 128 THEN 1 ELSE IF b < 224 THEN 2 ELSE IF b < 240 THEN 3 ELSE 4

RECURSIVE Utf8Text(_)
\* The text a sequence of UTF-8 bytes encodes: the scalar values read off the
\* payload bits of each lead byte and its continuation bytes.
Utf8Text(bytes) ==
    IF bytes = <<>> THEN <<>>
    ELSE LET w == Utf8Width(bytes[1])
             c == CASE w = 1 -> bytes[1]
                    [] w = 2 -> (bytes[1] - 192) * 64 + (bytes[2] - 128)
                    [] w = 3 -> (bytes[1] - 224) * 4096 + (bytes[2] - 128) * 64
                                + (bytes[3] - 128)
                    [] w = 4 -> (bytes[1] - 240) * 262144 + (bytes[2] - 128) * 4096
                                + (bytes[3] - 128) * 64 + (bytes[4] - 128)
         IN <<c>> \o Utf8Text(SubSeq(bytes, w + 1, Len(bytes)))

RECURSIVE Utf8Len(_)
\* The length of the UTF-8 representation of a text: one byte for a scalar
\* value below 2^7, two below 2^11, three below 2^16, four above.
Utf8Len(text) ==
    IF text = <<>> THEN 0
    ELSE LET c == Head(text)
         IN (IF c < 2^7 THEN 1 ELSE IF c < 2^11 THEN 2 ELSE IF c < 2^16 THEN 3 ELSE 4)
            + Utf8Len(Tail(text))

\* bytes is the UTF-8 representation of text: bytes (each of them 0..255)
\* that decode to the text and are as many as its shortest encoding has.
IsUtf8Of(bytes, text) ==
    /\ \A i \in 1..Len(bytes) : bytes[i] \in 0..255
    /\ Len(bytes) = Utf8Len(text)
    /\ Utf8Text(bytes) = text

\* C20: get_binary, get_binary_unchecked and take_binary on a slot holding
\* text return the UTF-8 bytes of the text, in a debug and in a release build,
\* and raise no type mismatch.
C20_BinaryAccessReadsTextAsBytes ==
    /\ []((Called /\ call.name \in {"get", "get_unchecked"} /\ call.type = "binary"
             /\ InRange /\ Slot.case = "String") =>
            /\ ret.some
            /\ IsUtf8Of(ret.value, Slot.payload)
            /\ pc = "row")
    /\ [][(call'.name = "take" /\ call'.type = "binary" /\ call'.index < Len(values)
             /\ values[call'.index + 1].case = "String") =>
            /\ ret'.some
            /\ IsUtf8Of(ret'.value, values[call'.index + 1].payload)
            /\ pc' = "row"]_vars

\* In a debug build take_binary returned the ten bytes of a text of four
\* characters of one, two, three and four bytes.
C20_Witness ==
    /\ debug_assertions /\ pc = "row"
    /\ Called /\ call.name = "take" /\ call.type = "binary"
    /\ ret = Some(<<116, 195, 169, 226, 130, 172, 240, 159, 152, 128>>)

\* ----------------------------------------------------------------------- C21
\* C21: at an index in range get_T_unchecked has the outcome of get_T: what
\* the unchecked call returned (a value, no value, or the panic of a debug
\* build with its message) is what get_T returns for the same type on the same
\* row at the same index in the same build, and the row is left as it was.
C21_UncheckedAgreesWithChecked ==
    /\ [](\A T \in AccessorTypes, index \in 0..(Len(values) - 1) :
            get_T_unchecked(T, values, index, debug_assertions)
               = get_T(T, values, index, debug_assertions))
    /\ []((Called /\ call.name = "get_unchecked") =>
            /\ InRange
            /\ ret = get_T(call.type, values, call.index, debug_assertions)
            /\ (pc = "panicked") = Panicked(ret))
    /\ [][call'.name = "get_unchecked" => values' = values]_vars

\* In a release build get_timestamp_unchecked returned the nanosecond
\* timestamp of the second slot.
C21_Witness ==
    /\ ~debug_assertions
    /\ Called /\ call.name = "get_unchecked" /\ call.type = "timestamp" /\ call.index = 1
    /\ Len(values) = 2 /\ values[2].case = "TimestampNanosecond"
    /\ ret = Some(1700000003)

\* ============================================================ the TableSchema
\* TableSchema (src/table.rs) built by TableSchema::builder()..build(), with
\* or without the setters name(..) and columns(..) the builder derive gives
\* its two fields, and the add_* calls chained on it.

\* Largest number of add_* calls made on one schema.
MaxColumns == 3

\* The arguments explored.
TableNames == {"logs", "metrics"}
ColumnNames == {"ts", "host"}
ColumnDataTypes == {"String", "TimestampMillisecond"}
DecimalParameters == {[precision |-> 10, scale |-> 2], [precision |-> 38, scale |-> -3]}

\* self.columns.push(column); self
push_column(s, column) == [s EXCEPT !.columns = Append(s.columns, column)]

\* TableSchema::add_tag
add_tag(s, name, data_type, nullable) ==
    push_column(s, [name                |-> name,
                    data_type           |-> data_type,
                    semantic_type       |-> "Tag",
                    data_type_extension |-> None,
                    nullable            |-> nullable])

\* Fault variant of add_timestamp: the timestamp column takes the place of
\* the columns added so far.
add_timestampReplaces(s, name, data_type) ==
    [s EXCEPT !.columns = <<[name                |-> name,
                             data_type           |-> data_type,
                             semantic_type       |-> "Timestamp",
                             data_type_extension |-> None,
                             nullable            |-> FALSE]>>]

\* TableSchema::add_timestamp
add_timestamp(s, name, data_type) ==
    push_column(s, [name                |-> name,
                    data_type           |-> data_type,
                    semantic_type       |-> "Timestamp",
                    data_type_extension |-> None,
                    nullable            |-> FALSE])

\* TableSchema::add_field
add_field(s, name, data_type, nullable) ==
    push_column(s, [name                |-> name,
                    data_type           |-> data_type,
                    semantic_type       |-> "Field",
                    data_type_extension |-> None,
                    nullable            |-> nullable])

\* TableSchema::add_decimal128_field
add_decimal128_field(s, name, precision, scale, nullable) ==
    push_column(s, [name                |-> name,
                    data_type           |-> "Decimal128",
                    semantic_type       |-> "Field",
                    data_type_extension |-> Some([precision |-> precision,
                                                  scale     |-> scale]),
                    nullable            |-> nullable])

\* A column handed to the builder's columns setter: Column's fields are
\* public, so it can be a Timestamp column that is nullable.
NullableTimestampColumn ==
    [name                |-> "ts",
     data_type           |-> "TimestampMillisecond",
     semantic_type       |-> "Timestamp",
     data_type_extension |-> None,
     nullable            |-> TRUE]

\* What the builder's setters were given: name(..) called or not, columns(..)
\* called or not.
BuilderNames == {None} \cup {Some(n) : n \in TableNames}
BuilderColumns == {None, Some(<<NullableTimestampColumn>>)}

\* TableSchemaBuilder::build(): name has no default, so a builder without a
\* name fails; columns is #[builder(default)], an empty list when not set.
build(name, columns) ==
    IF ~name.some
    THEN [ok |-> FALSE, error |-> <<"UninitializedField", "name">>]
    ELSE [ok |-> TRUE,
          value |-> [name    |-> name.value,
                     columns |-> IF columns.some THEN columns.value ELSE <<>>]]

\* TableSchema::builder() with its setters and build(): the schema, or the
\* error and no schema to chain add_* calls on.  No provider, no run, no row.
InitSchemaWith(name, columns) ==
    /\ schema = IF build(name, columns).ok
                THEN build(name, columns).value
                ELSE [error |-> build(name, columns).error]
    /\ schema_calls = <<>>
    /\ pc = IF build(name, columns).ok THEN "schema" ELSE "build_failed"
    /\ values = <<>>
    /\ debug_assertions = FALSE
    /\ call = <<>>
    /\ ret = <<>>
    /\ taken = {}
    /\ env = <<>>
    /\ config = <<>>
    /\ bulk_options = <<>>
    /\ row_count = 0
    /\ current_row = 0
    /\ api_current_row = 0
    /\ rows_start = 0
    /\ rows_out = <<>>
    /\ api_out = <<>>
    /\ pulls = <<>>
    /\ batch_size = 0
    /\ parallelism = 1
    /\ rows_buf = <<>>
    /\ break_out = FALSE
    /\ rows_written = 0
    /\ batch_count = 0
    /\ result = NewResult(0)
    /\ pending = {}
    /\ completed = {}
    /\ failed = {}
    /\ calls = <<>>
    /\ submitted = <<>>
    /\ collected = {}
    /\ ackCount = 0
    /\ ackRows = 0
    /\ write_error = 0

InitSchema ==
    \E name \in BuilderNames, columns \in BuilderColumns : InitSchemaWith(name, columns)

\* Everything but the schema.
not_schema_frame ==
    /\ UNCHANGED <<row_count, current_row, batch_size, parallelism, pc, rows_buf,
                   break_out, rows_written, batch_count, result, pending, completed,
                   failed, calls, submitted, collected, ackCount, ackRows, write_error>>
    /\ sequence_frame /\ config_frame /\ row_frame

\* schema = schema.add_tag(name, data_type, nullable)
AddTag ==
    /\ pc = "schema"
    /\ Len(schema_calls) < MaxColumns
    /\ \E name \in ColumnNames, data_type \in ColumnDataTypes, nullable \in BOOLEAN :
          /\ schema' = add_tag(schema, name, data_type, nullable)
          /\ schema_calls' = Append(schema_calls,
                                    [method |-> "add_tag", name |-> name,
                                     data_type |-> data_type, nullable |-> nullable])
    /\ not_schema_frame

\* schema = schema.add_timestamp(name, data_type)
AddTimestamp ==
    /\ pc = "schema"
    /\ Len(schema_calls) < MaxColumns
    /\ \E name \in ColumnNames, data_type \in ColumnDataTypes :
          /\ schema' = add_timestamp(schema, name, data_type)
          /\ schema_calls' = Append(schema_calls,
                                    [method |-> "add_timestamp", name |-> name,
                                     data_type |-> data_type])
    /\ not_schema_frame

\* schema = schema.add_field(name, data_type, nullable)
AddField ==
    /\ pc = "schema"
    /\ Len(schema_calls) < MaxColumns
    /\ \E name \in ColumnNames, data_type \in ColumnDataTypes, nullable \in BOOLEAN :
          /\ schema' = add_field(schema, name, data_type, nullable)
          /\ schema_calls' = Append(schema_calls,
                                    [method |-> "add_field", name |-> name,
                                     data_type |-> data_type, nullable |-> nullable])
    /\ not_schema_frame

\* schema = schema.add_decimal128_field(name, precision, scale, nullable)
AddDecimal128Field ==
    /\ pc = "schema"
    /\ Len(schema_calls) < MaxColumns
    /\ \E name \in ColumnNames, d \in DecimalParameters, nullable \in BOOLEAN :
          /\ schema' = add_decimal128_field(schema, name, d.precision, d.scale, nullable)
          /\ schema_calls' = Append(schema_calls,
                                    [method |-> "add_decimal128_field", name |-> name,
                                     precision |-> d.precision, scale |-> d.scale,
                                     nullable |-> nullable])
    /\ not_schema_frame

NextSchema ==
    \/ AddTag
    \/ AddTimestamp
    \/ AddField
    \/ AddDecimal128Field

SpecSchema == InitSchema /\ [][NextSchema]_vars

\* ----------------------------------------------------------------------- C22
\* The column the claim gives for an add_* call.
ColumnOfCall(c) ==
    CASE c.method = "add_tag" ->
            [name |-> c.name, data_type |-> c.data_type, semantic_type |-> "Tag",
             data_type_extension |-> None, nullable |-> c.nullable]
      [] c.method = "add_timestamp" ->
            [name |-> c.name, data_type |-> c.data_type, semantic_type |-> "Timestamp",
             data_type_extension |-> None, nullable |-> FALSE]
      [] c.method = "add_field" ->
            [name |-> c.name, data_type |-> c.data_type, semantic_type |-> "Field",
             data_type_extension |-> None, nullable |-> c.nullable]
      [] c.method = "add_decimal128_field" ->
            [name |-> c.name, data_type |-> "Decimal128", semantic_type |-> "Field",
             data_type_extension |-> Some([precision |-> c.precision, scale |-> c.scale]),
             nullable |-> c.nullable]

\* The number of columns the schema was built with.
BuiltWith == Len(schema.columns) - Len(schema_calls)

\* C22 as stated: the columns of a schema are exactly one column per add_*
\* call, in the order of the calls.
C22_ColumnsOnlyFromCalls ==
    pc = "schema" =>
       /\ Len(schema.columns) = Len(schema_calls)
       /\ \A i \in 1..Len(schema_calls) :
             schema.columns[i] = ColumnOfCall(schema_calls[i])

\* C22, amended: the columns of a schema are the columns it was built with
\* followed by one column per add_* call, in the order of the calls, each with
\* the role of its method (add_timestamp never nullable, add_decimal128_field a
\* Decimal128 field with its precision and scale); every add_* call can be
\* made on every schema, whatever its columns are; and a call leaves the table
\* name and the columns before it as they were.
C22_OneColumnPerCall ==
    /\ [](pc = "schema" =>
             /\ BuiltWith >= 0
             /\ \A i \in 1..Len(schema_calls) :
                   schema.columns[BuiltWith + i] = ColumnOfCall(schema_calls[i])
             /\ Len(schema_calls) < MaxColumns =>
                   /\ ENABLED AddTag
                   /\ ENABLED AddTimestamp
                   /\ ENABLED AddField
                   /\ ENABLED AddDecimal128Field)
    /\ [][/\ schema'.name = schema.name
          /\ Len(schema'.columns) = Len(schema.columns) + 1
          /\ SubSeq(schema'.columns, 1, Len(schema.columns)) = schema.columns
          /\ Len(schema_calls') = Len(schema_calls) + 1]_vars

\* On a schema built with one column, a tag and a second column of the tag's
\* name, a decimal field, were added.
C22_Witness ==
    /\ pc = "schema"
    /\ Len(schema.columns) = 3 /\ Len(schema_calls) = 2
    /\ schema.columns[1] = NullableTimestampColumn
    /\ schema.columns[2].semantic_type = "Tag"
    /\ schema.columns[3].name = schema.columns[2].name
    /\ schema.columns[3].data_type_extension = Some([precision |-> 38, scale |-> -3])

\* ----------------------------------------------------------------------- C23
\* The positions of the Timestamp columns of the schema.
TimestampColumns ==
    {i \in 1..Len(schema.columns) : schema.columns[i].semantic_type = "Timestamp"}

\* C23: a schema made by the builder and add_* calls has no Timestamp column
\* or exactly one, and a Timestamp column is never nullable.
C23_AtMostOneTimestamp ==
    pc = "schema" =>
       /\ Cardinality(TimestampColumns) <= 1
       /\ \A i \in TimestampColumns : ~schema.columns[i].nullable

\* ======================================================= the rows' 22 values
\* The value a pool holds at a position: the pools are filled once by
\* LogTableDataProvider::new and only read afterwards, so an entry is known by
\* its pool and its position.
PoolEntry(pool, idx) == [pool |-> pool, idx |-> idx]

\* The name of the provider's table.
ProviderTableName == "benchmark_logs"

\* Fault variant of row_values: the response time is emitted before the five
\* identifiers that precede it in the schema.
row_valuesResponseTimeEarly(r, pool_len) ==
    LET idx1 == r.base_idx
        idx2 == (r.base_idx + 1) % pool_len
        idx3 == (r.base_idx + 2) % pool_len
        idx4 == (r.base_idx + 3) % pool_len
        idx5 == (r.base_idx + 4) % pool_len
    IN << Val("TimestampMillisecond", r.timestamp),
          Val("String", PoolEntry("log_uids", r.base_idx)),
          Val("String", PoolEntry("log_entries.1", r.log_entry_idx)),
          Val("String", PoolEntry("log_entries.0", r.log_entry_idx)),
          Val("String", PoolEntry("host_ids", idx1)),
          Val("String", PoolEntry("host_names", idx1)),
          Val("String", PoolEntry("service_ids", idx2)),
          Val("String", PoolEntry("service_names", idx2)),
          Val("String", PoolEntry("container_ids", idx3)),
          Val("String", PoolEntry("container_names", idx3)),
          Val("String", PoolEntry("pod_ids", idx4)),
          Val("String", PoolEntry("pod_names", idx4)),
          Val("String", PoolEntry("cluster_ids", idx5)),
          Val("String", PoolEntry("cluster_names", idx5)),
          Val("Int64", r.response_time_ms),
          Val("String", PoolEntry("trace_ids", idx1)),
          Val("String", PoolEntry("span_ids", idx2)),
          Val("String", PoolEntry("user_ids", idx3)),
          Val("String", PoolEntry("session_ids", idx4)),
          Val("String", PoolEntry("request_ids", idx5)),
          Val("String", "application"),
          Val("String", "v1.0.0") >>

\* generate_row, Row::new().add_values(vec![..]): the values of the row built
\* from the timestamp and the pool positions r, in the order of the vec.
\* log_entries holds (log_level, log_message) pairs.
row_values(r, pool_len) ==
    LET idx1 == r.base_idx
        idx2 == (r.base_idx + 1) % pool_len
        idx3 == (r.base_idx + 2) % pool_len
        idx4 == (r.base_idx + 3) % pool_len
        idx5 == (r.base_idx + 4) % pool_len
    IN << Val("TimestampMillisecond", r.timestamp),
          Val("String", PoolEntry("log_uids", r.base_idx)),
          Val("String", PoolEntry("log_entries.1", r.log_entry_idx)),
          Val("String", PoolEntry("log_entries.0", r.log_entry_idx)),
          Val("String", PoolEntry("host_ids", idx1)),
          Val("String", PoolEntry("host_names", idx1)),
          Val("String", PoolEntry("service_ids", idx2)),
          Val("String", PoolEntry("service_names", idx2)),
          Val("String", PoolEntry("container_ids", idx3)),
          Val("String", PoolEntry("container_names", idx3)),
          Val("String", PoolEntry("pod_ids", idx4)),
          Val("String", PoolEntry("pod_names", idx4)),
          Val("String", PoolEntry("cluster_ids", idx5)),
          Val("String", PoolEntry("cluster_names", idx5)),
          Val("String", PoolEntry("trace_ids", idx1)),
          Val("String", PoolEntry("span_ids", idx2)),
          Val("String", PoolEntry("user_ids", idx3)),
          Val("String", PoolEntry("session_ids", idx4)),
          Val("String", PoolEntry("request_ids", idx5)),
          Val("Int64", r.response_time_ms),
          Val("String", "application"),
          Val("String", "v1.0.0") >>

\* LogTableDataProvider::table_schema
table_schema ==
    LET s0  == build(Some(ProviderTableName), None).value
        s1  == add_timestamp(s0, "ts", "TimestampMillisecond")
        s2  == add_field(s1, "log_uid", "String", FALSE)
        s3  == add_field(s2, "log_message", "String", FALSE)
        s4  == add_field(s3, "log_level", "String", FALSE)
        s5  == add_field(s4, "host_id", "String", FALSE)
        s6  == add_field(s5, "host_name", "String", FALSE)
        s7  == add_field(s6, "service_id", "String", FALSE)
        s8  == add_field(s7, "service_name", "String", FALSE)
        s9  == add_field(s8, "container_id", "String", FALSE)
        s10 == add_field(s9, "container_name", "String", FALSE)
        s11 == add_field(s10, "pod_id", "String", FALSE)
        s12 == add_field(s11, "pod_name", "String", FALSE)
        s13 == add_field(s12, "cluster_id", "String", FALSE)
        s14 == add_field(s13, "cluster_name", "String", FALSE)
        s15 == add_field(s14, "trace_id", "String", FALSE)
        s16 == add_field(s15, "span_id", "String", FALSE)
        s17 == add_field(s16, "user_id", "String", FALSE)
        s18 == add_field(s17, "session_id", "String", FALSE)
        s19 == add_field(s18, "request_id", "String", FALSE)
        s20 == add_field(s19, "response_time_ms", "Int64", FALSE)
        s21 == add_field(s20, "log_source", "String", FALSE)
    IN add_field(s21, "version", "String", FALSE)

\* One ColumnSchema of api_schema (datatype_extension and options are None).
ColumnSchema(column_name, datatype, semantic_type) ==
    [column_name |-> column_name, datatype |-> datatype, semantic_type |-> semantic_type]

\* LogTableDataProvider::api_schema
api_schema ==
    << ColumnSchema("ts", "TimestampMillisecond", "Timestamp"),
       ColumnSchema("log_uid", "String", "Field"),
       ColumnSchema("log_message", "String", "Field"),
       ColumnSchema("log_level", "String", "Field"),
       ColumnSchema("host_id", "String", "Field"),
       ColumnSchema("host_name", "String", "Field"),
       ColumnSchema("service_id", "String", "Field"),
       ColumnSchema("service_name", "String", "Field"),
       ColumnSchema("container_id", "String", "Field"),
       ColumnSchema("container_name", "String", "Field"),
       ColumnSchema("pod_id", "String", "Field"),
       ColumnSchema("pod_name", "String", "Field"),
       ColumnSchema("cluster_id", "String", "Field"),
       ColumnSchema("cluster_name", "String", "Field"),
       ColumnSchema("trace_id", "String", "Field"),
       ColumnSchema("span_id", "String", "Field"),
       ColumnSchema("user_id", "String", "Field"),
       ColumnSchema("session_id", "String", "Field"),
       ColumnSchema("request_id", "String", "Field"),
       ColumnSchema("response_time_ms", "Int64", "Field"),
       ColumnSchema("log_source", "String", "Field"),
       ColumnSchema("version", "String", "Field") >>

\* ----------------------------------------------------------------------- C24
\* The values of the i-th thing the structured-row sequence returned.
YieldedValues(i) == row_values(rows_out[i], pool_size(row_count))

\* C24: every row the structured-row sequence yields has as many values as
\* table_schema() has columns, 22; none of its values is null; the case of the
\* value at each position is the declared type of the column at that position
\* (TimestampMillisecond first, Int64 for response_time_ms, String elsewhere);
\* and api_schema() lists the same 22 column names in the same order.
C24_RowsAlignedWithSchema ==
    LET columns == table_schema.columns
    IN /\ Len(columns) = 22
       /\ \A i \in Yielded(rows_out) :
             LET row == YieldedValues(i)
             IN /\ Len(row) = Len(columns)
                /\ \A p \in 1..Len(row) :
                      /\ row[p] # Null
                      /\ row[p].case = columns[p].data_type
                      /\ row[p].case =
                            (CASE columns[p].name = "ts" -> "TimestampMillisecond"
                               [] columns[p].name = "response_time_ms" -> "Int64"
                               [] OTHER -> "String")
       /\ columns[1].name = "ts"
       /\ Len(api_schema) = 22
       /\ \A p \in 1..22 : api_schema[p].column_name = columns[p].name

\* Three rows were yielded and the third carries an Int64 response time in the
\* column named response_time_ms.
C24_Witness ==
    /\ Cardinality(Yielded(rows_out)) = 3
    /\ table_schema.columns[20].name = "response_time_ms"
    /\ YieldedValues(3)[20] = Val("Int64", 3)

\* ----------------------------------------------------------------------- C25
\* A pull on the wire-row sequence has just been made.
ApiPulled == pulls' # pulls /\ pulls'[Len(pulls')] = "api_rows"

\* C25: a pull on the wire-row sequence leaves the provider's current_row as it
\* was before the pull, whether it returns a row or the end; the sequence's own
\* cursor moves by exactly one when a row is returned and not at all at the end.
C25_ApiPullKeepsProviderCursor ==
    [][ApiPulled =>
          /\ current_row' = current_row
          /\ api_out' = Append(api_out, api_out'[Len(api_out')])
          /\ (api_out'[Len(api_out')] # NoRow) = (api_current_row < row_count)
          /\ api_out'[Len(api_out')] # NoRow => api_current_row' = api_current_row + 1
          /\ api_out'[Len(api_out')] = NoRow => api_current_row' = api_current_row]_vars

\* The wire-row sequence gave rows and then its end while the provider's cursor
\* stood at its first row, away from the sequence's.
C25_Witness ==
    /\ row_count = 2 /\ current_row = 1
    /\ api_out = <<MakeApiRow(0, pool_size(2)), MakeApiRow(1, pool_size(2)), NoRow>>
    /\ api_current_row = 2
    /\ pulls # <<>> /\ pulls[Len(pulls)] = "api_rows"

\* ----------------------------------------------------------------------- C26
\* The number of rows among the first n things the structured-row sequences
\* returned.
YieldedBefore(n) == Cardinality({i \in Yielded(rows_out) : i <= n})

\* The structured-row sequences have reported the end of the rows.
RowsExhausted == \E i \in 1..Len(rows_out) : rows_out[i] = NoRow

\* C26: the structured-row sequence cannot be started again.  A sequence
\* obtained with rows() after j rows were pulled starts at position j: the
\* rows it yields are the rows of the source from position j on, at most
\* K - j of them, and exactly K - j once it has ended; all the sequences
\* obtained from one provider yield at most K rows together; and once the rows
\* are exhausted no sequence, obtained before or after, yields a row again.
C26_RowsNotRestartable ==
    /\ [](LET j == YieldedBefore(rows_start)
              mine == {i \in Yielded(rows_out) : i > rows_start}
          IN /\ rows_start <= Len(rows_out)
             /\ j = current_row - Cardinality(mine)
             /\ \A i \in mine : rows_out[i] = SourceRows[YieldedBefore(i)]
             /\ \A i \in mine : YieldedBefore(i) > j
             /\ Cardinality(mine) <= row_count - j
             /\ (\E i \in (rows_start + 1)..Len(rows_out) : rows_out[i] = NoRow)
                    => Cardinality(mine) = row_count - j
             /\ Cardinality(Yielded(rows_out)) <= row_count)
    /\ [][/\ RowsExhausted => Yielded(rows_out') = Yielded(rows_out)
          /\ rows_start' # rows_start => current_row' = current_row]_vars

\* A sequence obtained after one of three rows was pulled gave the two rows
\* left and then its end.
C26_Witness ==
    /\ row_count = 3
    /\ rows_start = 1
    /\ rows_out = <<SourceRows[1], SourceRows[2], SourceRows[3], NoRow>>

\* ========================================================= the wire values
\* greptimedb_ingester::helpers::values: a wire value wraps one payload in the
\* value_data case of its type.
timestamp_millisecond_value(v) ==
    [value_data |-> Some([case |-> "TimestampMillisecondValue", payload |-> v])]
string_value(v) == [value_data |-> Some([case |-> "StringValue", payload |-> v])]
i64_value(v) == [value_data |-> Some([case |-> "I64Value", payload |-> v])]

\* Fault variant of api_row_values: the level and the message of the log entry
\* are emitted in the order of the pair they are stored in.
api_row_valuesLevelFirst(r, pool_len) ==
    LET idx1 == r.base_idx
        idx2 == (r.base_idx + 1) % pool_len
        idx3 == (r.base_idx + 2) % pool_len
        idx4 == (r.base_idx + 3) % pool_len
        idx5 == (r.base_idx + 4) % pool_len
    IN << timestamp_millisecond_value(r.timestamp),
          string_value(PoolEntry("log_uids", r.base_idx)),
          string_value(PoolEntry("log_entries.0", r.log_entry_idx)),
          string_value(PoolEntry("log_entries.1", r.log_entry_idx)),
          string_value(PoolEntry("host_ids", idx1)),
          string_value(PoolEntry("host_names", idx1)),
          string_value(PoolEntry("service_ids", idx2)),
          string_value(PoolEntry("service_names", idx2)),
          string_value(PoolEntry("container_ids", idx3)),
          string_value(PoolEntry("container_names", idx3)),
          string_value(PoolEntry("pod_ids", idx4)),
          string_value(PoolEntry("pod_names", idx4)),
          string_value(PoolEntry("cluster_ids", idx5)),
          string_value(PoolEntry("cluster_names", idx5)),
          string_value(PoolEntry("trace_ids", idx1)),
          string_value(PoolEntry("span_ids", idx2)),
          string_value(PoolEntry("user_ids", idx3)),
          string_value(PoolEntry("session_ids", idx4)),
          string_value(PoolEntry("request_ids", idx5)),
          i64_value(r.response_time_ms),
          string_value("application"),
          string_value("v1.0.0") >>

\* generate_api_row, ApiRow { values: vec![..] }: the wire values of the row
\* built from the timestamp and the pool positions r, in the order of the vec.
api_row_values(r, pool_len) ==
    LET idx1 == r.base_idx
        idx2 == (r.base_idx + 1) % pool_len
        idx3 == (r.base_idx + 2) % pool_len
        idx4 == (r.base_idx + 3) % pool_len
        idx5 == (r.base_idx + 4) % pool_len
    IN << timestamp_millisecond_value(r.timestamp),
          string_value(PoolEntry("log_uids", r.base_idx)),
          string_value(PoolEntry("log_entries.1", r.log_entry_idx)),
          string_value(PoolEntry("log_entries.0", r.log_entry_idx)),
          string_value(PoolEntry("host_ids", idx1)),
          string_value(PoolEntry("host_names", idx1)),
          string_value(PoolEntry("service_ids", idx2)),
          string_value(PoolEntry("service_names", idx2)),
          string_value(PoolEntry("container_ids", idx3)),
          string_value(PoolEntry("container_names", idx3)),
          string_value(PoolEntry("pod_ids", idx4)),
          string_value(PoolEntry("pod_names", idx4)),
          string_value(PoolEntry("cluster_ids", idx5)),
          string_value(PoolEntry("cluster_names", idx5)),
          string_value(PoolEntry("trace_ids", idx1)),
          string_value(PoolEntry("span_ids", idx2)),
          string_value(PoolEntry("user_ids", idx3)),
          string_value(PoolEntry("session_ids", idx4)),
          string_value(PoolEntry("request_ids", idx5)),
          i64_value(r.response_time_ms),
          string_value("application"),
          string_value("v1.0.0") >>

\* ----------------------------------------------------------------------- C27
\* The wire case that carries the payload of a structured case.
WireCase(case) ==
    CASE case = "TimestampMillisecond" -> "TimestampMillisecondValue"
      [] case = "String" -> "StringValue"
      [] case = "Int64" -> "I64Value"

\* The wire value w carries what the structured value v holds.
SameColumnValue(w, v) ==
    /\ w.value_data.some
    /\ w.value_data.value.case = WireCase(v.case)
    /\ w.value_data.value.payload = v.payload

\* The positions at which both sequences have yielded a row: the sequence of
\* wire rows since it was last obtained, the structured rows since the provider
\* was made.
BothYielded == {i \in Yielded(rows_out) : i \in Yielded(api_out) /\ YieldedBefore(i) = i}

\* C27: at every position of one provider the wire row built by
\* generate_api_row carries the same 22 column values in the same order as the
\* structured row built by generate_row at that position (timestamp, pool
\* entries, response time, the two constants); and each of the two, when it
\* yields a row, advances the cursor it runs against by exactly one.
C27_WireRowsCarryStructuredRows ==
    /\ [](\A i \in BothYielded :
            LET wire == api_row_values(api_out[i], pool_size(row_count))
                row == row_values(rows_out[i], pool_size(row_count))
            IN /\ Len(wire) = 22 /\ Len(row) = 22
               /\ \A p \in 1..22 : SameColumnValue(wire[p], row[p]))
    /\ [][/\ (Len(rows_out') > Len(rows_out) /\ rows_out'[Len(rows_out')] # NoRow)
                => current_row' = current_row + 1
          /\ (ApiPulled /\ api_out'[Len(api_out')] # NoRow)
                => api_current_row' = api_current_row + 1]_vars

\* Both sequences have yielded the three rows of a provider.
C27_Witness ==
    /\ row_count = 3
    /\ BothYielded = {1, 2, 3}
    /\ api_row_values(api_out[3], pool_size(row_count))[20] = i64_value(3)
    /\ api_row_values(api_out[3], pool_size(row_count))[7]
          = string_value(PoolEntry("service_ids", 3))

\* ================================================ run_regular_api_benchmark
\* The regular (non-bulk) path of the runner: the wire rows of api_rows() are
\* collected into batch_rows (rows_buf) and each batch goes out in one
\* database.insert; batch_complete is break_out, the iterator's cursor is
\* api_current_row, submitted holds the batches handed to insert.
InitRegularWith(k, b) ==
    /\ row_count = k
    /\ batch_size = b
    /\ parallelism = 1
    /\ current_row = 0
    /\ api_current_row = 0
    /\ rows_start = 0
    /\ pc = "regular_init"
    /\ rows_buf = <<>>
    /\ break_out = FALSE
    /\ rows_written = 0
    /\ batch_count = 0
    /\ result = NewResult(k)
    /\ pending = {}
    /\ completed = {}
    /\ failed = {}
    /\ calls = <<>>
    /\ submitted = <<>>
    /\ collected = {}
    /\ ackCount = 0
    /\ ackRows = 0
    /\ write_error = 0
    /\ rows_out = <<>>
    /\ api_out = <<>>
    /\ pulls = <<>>
    /\ env = <<>>
    /\ config = <<>>
    /\ bulk_options = <<>>
    /\ values = <<>>
    /\ debug_assertions = FALSE
    /\ call = <<>>
    /\ ret = <<>>
    /\ taken = {}
    /\ schema = <<>>
    /\ schema_calls = <<>>

InitRegular == \E k \in 0..MaxRows, b \in 0..MaxBatch : InitRegularWith(k, b)

\* What a step of the regular path leaves alone besides its own variables.
regular_frame ==
    /\ UNCHANGED <<row_count, batch_size, parallelism, current_row, write_error>>
    /\ UNCHANGED <<rows_out, api_out, pulls, rows_start>>
    /\ transport_frame /\ config_frame /\ row_frame /\ schema_frame

\* provider.init() returned Ok.
RegularInitOk ==
    /\ pc = "regular_init"
    /\ calls' = Append(calls, Call("init", "Ok", 0))
    /\ pc' = "regular_connect"
    /\ UNCHANGED <<result, api_current_row, rows_buf, break_out, rows_written,
                   batch_count, submitted>>
    /\ regular_frame

\* provider.init() returned Err: return result.error(..).
RegularInitErr ==
    /\ pc = "regular_init"
    /\ calls' = Append(calls, Call("init", "Err", 0))
    /\ result' = ResultError(result, "Failed to initialize provider")
    /\ pc' = "done"
    /\ UNCHANGED <<api_current_row, rows_buf, break_out, rows_written, batch_count,
                   submitted>>
    /\ regular_frame

\* create_client, Database::new_with_dbname, provider.api_schema(),
\* provider.api_rows(): the iterator starts at 0, batch_rows is empty.
RegularConnect ==
    /\ pc = "regular_connect"
    /\ calls' = Append(calls, Call("create_client", create_client, 0))
    /\ IF create_client = "Ok"
       THEN /\ pc' = "regular_fill"
            /\ UNCHANGED result
       ELSE /\ pc' = "done"
            /\ result' = ResultError(result, "Failed to create client")
    /\ api_current_row' = 0
    /\ rows_buf' = <<>>
    /\ UNCHANGED <<break_out, rows_written, batch_count, submitted>>
    /\ regular_frame

RECURSIVE ApiFillLoop(_, _, _, _, _)
\* for _ in 0..batch_size { if let Some(api_row) = row_iter.next() { push }
\*                          else { batch_complete = true; break } }
\* i iterations are left; log collects one "next" call per pull.  The pulls go
\* through ApiRowIterator::next, which works on the iterator's cursor cur.
ApiFillLoop(i, cur, buf, log, rc) ==
    IF i = 0
    THEN [buf |-> buf, cur |-> cur, batch_complete |-> FALSE, log |-> log]
    ELSE LET r == generate_api_row(cur, rc)
         IN IF r.row = NoRow
            THEN [buf |-> buf, cur |-> r.current_row, batch_complete |-> TRUE,
                  log |-> Append(log, Call("next", "None", 0))]
            ELSE ApiFillLoop(i - 1, r.current_row, Append(buf, r.row),
                             Append(log, Call("next", "Some", 0)), rc)

\* The loop body up to the insert: batch_rows.clear(), the fill, the
\* empty-batch exit.
RegularFill ==
    /\ pc = "regular_fill"
    /\ LET f == ApiFillLoop(batch_size, api_current_row, <<>>, calls, row_count)
       IN /\ rows_buf' = f.buf
          /\ api_current_row' = f.cur
          /\ break_out' = f.batch_complete
          /\ calls' = f.log
          /\ pc' = IF f.buf = <<>> THEN "regular_close" ELSE "regular_insert"
    /\ UNCHANGED <<result, rows_written, batch_count, submitted>>
    /\ regular_frame

\* database.insert(insert_request).await returned Ok(affected_rows): the
\* counters, then the batch_complete exit.
InsertOk ==
    /\ pc = "regular_insert"
    /\ calls' = Append(calls, Call("insert", "Ok", Len(rows_buf)))
    /\ submitted' = Append(submitted, rows_buf)
    /\ rows_written' = rows_written + Len(rows_buf)
    /\ batch_count' = batch_count + 1
    /\ pc' = IF break_out THEN "regular_close" ELSE "regular_fill"
    /\ UNCHANGED <<result, api_current_row, rows_buf, break_out>>
    /\ regular_frame

\* Fault variant of InsertErr: the error is recorded but the loop goes on
\* (the return is missing).
InsertErrGoesOn ==
    /\ pc = "regular_insert"
    /\ calls' = Append(calls, Call("insert", "Err", Len(rows_buf)))
    /\ submitted' = Append(submitted, rows_buf)
    /\ result' = ResultError(result, "Failed to insert batch")
    /\ pc' = IF break_out THEN "regular_close" ELSE "regular_fill"
    /\ UNCHANGED <<api_current_row, rows_buf, break_out, rows_written, batch_count>>
    /\ regular_frame

\* database.insert(insert_request).await returned Err(e):
\* return result.error("Failed to insert batch ..").
InsertErr ==
    /\ pc = "regular_insert"
    /\ calls' = Append(calls, Call("insert", "Err", Len(rows_buf)))
    /\ submitted' = Append(submitted, rows_buf)
    /\ result' = ResultError(result, "Failed to insert batch")
    /\ pc' = "done"
    /\ UNCHANGED <<api_current_row, rows_buf, break_out, rows_written, batch_count>>
    /\ regular_frame

\* drop(row_iter); provider.close() returned Ok: result.success(..).
RegularCloseOk ==
    /\ pc = "regular_close"
    /\ calls' = Append(calls, Call("close", "Ok", 0))
    /\ result' = ResultSuccess(result)
    /\ pc' = "done"
    /\ UNCHANGED <<api_current_row, rows_buf, break_out, rows_written, batch_count,
                   submitted>>
    /\ regular_frame

\* provider.close() returned Err: return result.error(..).
RegularCloseErr ==
    /\ pc = "regular_close"
    /\ calls' = Append(calls, Call("close", "Err", 0))
    /\ result' = ResultError(result, "Failed to close provider")
    /\ pc' = "done"
    /\ UNCHANGED <<api_current_row, rows_buf, break_out, rows_written, batch_count,
                   submitted>>
    /\ regular_frame

NextRegular ==
    \/ RegularInitOk
    \/ RegularInitErr
    \/ RegularConnect
    \/ RegularFill
    \/ InsertOk
    \/ InsertErr
    \/ RegularCloseOk
    \/ RegularCloseErr

SpecRegular == InitRegular /\ [][NextRegular]_vars

\* ----------------------------------------------------------------------- C28
\* The K wire rows of the source in production order.
SourceApiRows == [i \in 1..row_count |-> MakeApiRow(i - 1, pool_size(row_count))]

\* C28: on the regular path every batch handed to database.insert is
\* non-empty and goes out in exactly one insert, the batches sent are the
\* source's wire rows in order without gap or repeat, and a batch is filled
\* only when every insert before it has returned Ok.  The first failed insert
\* is the last call of the run: the run has returned with success = false and
\* the insert error, no row is pulled and no batch sent after it.
C28_FailedInsertEndsRun ==
    /\ [](/\ Cardinality(CallsOf("insert")) = Len(submitted)
          /\ \A i \in 1..Len(submitted) :
                Len(submitted[i]) \in 1..batch_size
          /\ Flatten(submitted) = SubSeq(SourceApiRows, 1, Len(Flatten(submitted)))
          /\ pc = "regular_insert" =>
                /\ rows_buf # <<>>
                /\ Flatten(submitted) \o rows_buf
                      = SubSeq(SourceApiRows, 1, api_current_row)
          /\ \A i \in CallsWith("insert", "Err") :
                /\ i = Len(calls)
                /\ pc = "done"
                /\ ~result.success
                /\ result.error_message = "Failed to insert batch"
          /\ rows_written = Len(Flatten(submitted)) - (IF CallsWith("insert", "Err") = {}
                                                       THEN 0
                                                       ELSE Len(submitted[Len(submitted)])))
    /\ [][CallsWith("insert", "Err") # {} => UNCHANGED vars]_vars

\* The second insert of a run failed while rows were left in the source.
C28_Witness ==
    /\ Cardinality(CallsWith("insert", "Ok")) = 1
    /\ Cardinality(CallsWith("insert", "Err")) = 1
    /\ api_current_row < row_count
    /\ pc = "done"

\* ----------------------------------------------------------------------- C29
\* The most fill iterations the claim allows a run of K rows in batches of B:
\* ceil(K / B) + 1; with B = 0 the quotient is not defined and the single
\* iteration that finds its batch empty is the bound.
MaxFillIterations ==
    IF batch_size = 0 THEN 1 ELSE Ceil(row_count, batch_size) + 1

\* A fill iteration is being run: every iteration before it put a batch
\* together (an empty batch ends the loop), so it is iteration batch_count + 1.
FillIterationRuns == pc = "fill" /\ pc' # "fill"

\* C29 (as claimed): every bulk run ends.  When no awaited call is put off
\* forever the run returns a result, success or error; it runs at most
\* ceil(K / B) + 1 fill iterations; and a fill iteration that starts on an
\* exhausted source leaves the loop.  The first part fails: a run whose
\* alloc_rows_buffer or add_row returns Err panics on the unwrap and returns
\* no result.
C29_BulkRunTerminates ==
    /\ <>(pc = "done" /\ (result.success \/ result.error_message # "None"))
    /\ [][FillIterationRuns =>
             /\ batch_count + 1 <= MaxFillIterations
             /\ (current_row = row_count /\ batch_size > 0) =>
                    pc' \in {"drain", "panicked"}]_vars

\* What the code does keep: a run returns a result or panics, it never runs
\* on for ever; the bound on the fill iterations holds for the runs that panic
\* as for the others; and only a failed alloc_rows_buffer or add_row, as the
\* last call, makes a run panic.
C29_ReturnsOrPanics ==
    /\ <>(\/ pc = "done" /\ (result.success \/ result.error_message # "None")
          \/ pc = "panicked")
    /\ [](pc = "panicked" <=>
             (/\ calls # <<>>
              /\ calls[Len(calls)][2] = "Err"
              /\ calls[Len(calls)][1] \in {"alloc_rows_buffer", "add_row"}))
    /\ [][FillIterationRuns => batch_count + 1 <= MaxFillIterations]_vars

\* The first buffer of a run of one row could not be allocated: the run
\* panicked, with no result and nothing pulled.
C29_AllocPanicked ==
    /\ pc = "panicked" /\ result = NewResult(row_count)
    /\ row_count = 1 /\ batch_size = 1 /\ current_row = 0
    /\ calls[Len(calls)] = Call("alloc_rows_buffer", "Err", 0)

\* The second add_row of a run failed after a first batch had been submitted:
\* the run panicked with that batch outstanding and no result.
C29_AddRowPanicked ==
    /\ pc = "panicked" /\ result = NewResult(row_count)
    /\ batch_size = 1 /\ Len(submitted) = 1 /\ current_row = 2
    /\ calls[Len(calls)] = Call("add_row", "Err", 0)

\* ----------------------------------------------------------------------- C30
\* The step is a take_T or take_T_unchecked on a slot of the row.
TakeInRange ==
    call'.name \in {"take", "take_unchecked"} /\ call'.index < Len(values)

\* C30: a take_string or take_binary, checked or unchecked, at an index in
\* range leaves that slot null whatever it held, and the other slots as they
\* were; when the slot held a non-null case the accessor does not accept, a
\* release build returns no value without panicking and the stored value is
\* gone all the same; a slot once null stays null, and every get on it, the
\* get of the type it used to hold included, returns no value.
C30_TakeAlwaysEmptiesSlot ==
    /\ [][/\ TakeInRange =>
                /\ Len(values') = Len(values)
                /\ values'[call'.index + 1] = Null
                /\ \A j \in 1..Len(values) :
                      j # call'.index + 1 => values'[j] = values[j]
                /\ (~debug_assertions /\ values[call'.index + 1] # Null
                       /\ values[call'.index + 1].case \notin GivesValue(call'.type)) =>
                      (ret' = None /\ pc' = "row")
          /\ \A j \in 1..Len(values) : values[j] = Null => values'[j] = Null
          /\ (call'.name \in {"get", "get_unchecked"} /\ call'.index < Len(values)
                 /\ values[call'.index + 1] = Null) => ret' = None]_vars
    /\ [](\A j \in 1..Len(values) :
            values[j] = Null =>
               \A T \in AccessorTypes : get_T(T, values, j - 1, debug_assertions) = None)

\* In a release build take_string(1) returned no value and no take has ever
\* returned one, so the second slot, which held a number or a text, lost a
\* value that no take handed out.
C30_Witness ==
    /\ ~debug_assertions
    /\ Called /\ call.name = "take" /\ call.type = "string" /\ call.index = 1
    /\ ret = None /\ taken = {}
    /\ Len(values) = 2 /\ values[2] = Null /\ values[1] = Val("Int64", 2000000001)
    /\ pc = "row"

====
